---------------------------- MODULE Spec2Model ----------------------------
(***************************************************************************)
(* Matrix Rooms Search: a model of the batcher, the phase latches, the     *)
(* index service, the data facade and servers discovery.                   *)
(*                                                                         *)
(* The components are modelled side by side over one set of variables.     *)
(* Each specification below runs the actions of one component and leaves   *)
(* the variables of the other components at their idle values.             *)
(***************************************************************************)
EXTENDS Integers, Sequences, FiniteSets, TLC

(***************************************************************************)
(* Bounds                                                                  *)
(***************************************************************************)
\* threshold of the batcher (batch.New(size, ...)), scaled down
BatchSize == 2
\* rooms of the model
NumRooms == 2
\* largest threshold of the index batch (cfg.Batch.Rooms)
MaxThreshold == 2
\* workers of the discovery work pool (cfg.Workers.Discovery)
Workers == 2
\* runs of DiscoverServers in a behaviour
MaxRuns == 2
\* most rooms on a page of publicRooms
MaxChunk == 2
\* most pages requested from a server
MaxPages == 2
\* calls of getURL in a behaviour
MaxCalls == 3
\* expirations of the resolved URLs cache in a behaviour
MaxEpoch == 1
\* instants of the clock of the HTTP cache model, two to a second
MaxTime == 4
\* longest search string, in symbols
MaxQueryLen == 5
\* longest list of room ids of a server handed to SaveServersRooms
MaxIDs == 2
\* calls of the index service in one behaviour of its call log
MaxLog == 4

(***************************************************************************)
(* Helpers                                                                 *)
(***************************************************************************)
RECURSIVE Flatten(_)
Flatten(ss) == IF ss = <<>> THEN <<>> ELSE Head(ss) \o Flatten(Tail(ss))

Range(s) == {s[i] : i \in 1..Len(s)}

VARIABLES
    \* ---- batcher (repository/batch) ----
    data,       \* Batch.data: the pending items
    mutex,      \* Batch's sync.Mutex: the goroutine holding it, or "free"
    bpc,        \* position of every goroutine that uses the batcher
    nadded,     \* number of Add calls every producer has issued
    flushed,    \* the argument of every flushfunc invocation, in order
    viaAdd,     \* for every flushfunc invocation: TRUE when Add triggered it
    appendLog,  \* the items in the order Add appended them
    bucket      \* rooms bucket written by the flush function: id -> item

batchVars == <<data, mutex, bpc, nadded, flushed, viaAdd, appendLog, bucket>>

VARIABLES
    \* ---- data facade, stats timestamps and the phase latches ----
    now,        \* the value the next time.Now() yields
    startedAt,  \* stored StartedAt of every process (phase)
    finishedAt, \* stored FinishedAt of every process (phase)
    stats,      \* Stats.stats: the in-memory snapshot of the timestamps
    lastStat,   \* the most recent timestamp write: <<kind, process, value>>
    latch,      \* Matrix.discovering, .parsing, .eachrooming, Stats.collecting
    fmethod,    \* the facade method every caller is executing
    fip,        \* the caller's position in the method (instruction index)
    fstep,      \* the caller's position inside a latch-guarded operation
    targ,       \* the time.Now() value the caller evaluated as an argument
    fk,         \* rooms the caller's EachRoom sweep has handed over so far
    trace,      \* the calls the caller's current invocation has issued
    ignored,    \* the latch-guarded calls of the invocation that were ignored
    nrooms      \* non-blocked rooms the store holds for the sweep

facadeVars == <<now, startedAt, finishedAt, stats, lastStat, latch, fmethod,
                fip, fstep, targ, fk, trace, ignored, nrooms>>

VARIABLES
    \* ---- rooms store, blocklist, index service, search, stats counters ----
    rooms,        \* ids of the rooms in the rooms bucket
    blockIDs,     \* Blocklist: blocked room ids and aliases
    blockServers, \* Blocklist: blocked servers
    threshold,    \* cfg.Batch.Rooms
    index,        \* ids of the documents of the live index
    sibling,      \* the index Swap builds beside the live one, or "none"
    batch,        \* Index.batch: ids of the pending documents
    eachrooming,  \* Matrix.eachrooming
    collecting,   \* Stats.collecting
    pop,           \* the operation the admin goroutine executes
    ppc,          \* its position in the operation
    remaining,    \* rooms the iteration of EachRoom has not visited yet
    toRemove,     \* Matrix.EachRoom: ids collected for removal
    handed,       \* rooms the sweep has passed to the handler
    failed,       \* TRUE when a submission of the operation failed
    oldDocs,      \* the documents of the live index when EmptyIndex began
    fresh,        \* TRUE from the promotion of an empty index to the next submission
    parsed,       \* stored counter Rooms.Parsed
    indexed,      \* stored counter Rooms.Indexed
    snap,         \* Stats.stats: the snapshot of the room counters
    found         \* what the last Search observed

pipeVars == <<rooms, blockIDs, blockServers, threshold, index, sibling, batch,
              eachrooming, collecting, pop, ppc, remaining, toRemove, handed,
              failed, oldDocs, fresh, parsed, indexed, snap, found>>

VARIABLES
    \* ---- Matrix.DiscoverServers ----
    dstore,       \* the servers of the store: name -> record
    seeds,        \* Matrix.servers: the configured seed list
    discovering,  \* Matrix.discovering
    dpc,          \* position of the goroutine that calls DiscoverServers
    drun,         \* number of completed runs of DiscoverServers
    todo,         \* names the loop of DiscoverServers has not reached yet
    tstate,       \* state of the task of the work pool for each name
    runStart,     \* the servers of the store when the run read AllServers
    fetched,      \* names whose contacts the run fetched
    probed,       \* names the run probed
    added,        \* names the run passed to AddServer
    removed,      \* names the run passed to RemoveServer
    visited,      \* names whose discoverServer task has returned
    probeResult,  \* what validateDiscoveredServer answered in the run
    addCount,     \* number of records the run stored for each name
    poolClosed,   \* the work pool of the run has seen a task return an error
    failedAdd     \* names whose AddServer returned an error in the run

discoverVars == <<dstore, seeds, discovering, dpc, drun, todo, tstate,
                  runStart, fetched, probed, added, removed, visited,
                  probeResult, addCount, poolClosed, failedAdd>>

VARIABLES
    \* ---- Matrix.ParseRooms ----
    onlineServers, \* names of the stored servers that are online
    parsing,      \* Matrix.parsing
    parsePc,      \* position of the goroutine that calls ParseRooms
    ptodo,        \* servers the loop of ParseRooms has not reached yet
    pworkers,     \* size of the work pool of the run
    pstate,       \* state of the getPublicRooms task of each server
    chunk,        \* getPublicRooms: rooms of the page not yet processed
    more,         \* getPublicRooms: the page has a non-empty next_batch
    npages,       \* number of pages requested from each server
    lastResp,     \* kind of the last answer to a page request of each server
    rb,           \* Data.rb: the rooms pending in the room batch
    listed,       \* rooms (non-empty id, not blocked) on the pages requested
    due,          \* rooms (non-empty id, not blocked) on the pages received
    enqueued,     \* rooms passed to AddRoomBatch
    dropped       \* entries of the chunks the loop skipped

parseVars == <<onlineServers, parsing, parsePc, ptodo, pworkers, pstate, chunk,
               more, npages, lastResp, rb, listed, due, enqueued, dropped>>

\* the variables of the pipeline other than the rooms bucket
pipeRest == <<blockIDs, blockServers, threshold, index, sibling, batch,
              eachrooming, collecting, pop, ppc, remaining, toRemove, handed,
              failed, oldDocs, fresh, parsed, indexed, snap, found>>

VARIABLES
    \* ---- endpoint resolver (Server.getURL) ----
    surlsCache,  \* the resolved URLs cache: server name -> URL or NoURL
    hasHook,     \* s.discoverFunc != nil
    gpc,         \* position of the caller inside getURL
    gname,       \* serverName of the call in progress
    gdiscover,   \* discover of the call in progress
    tried,       \* the resolution steps of the call in progress
    calls,       \* the completed calls: name, returned URL, steps, epoch
    epoch,       \* per name, the number of expirations of its cache entry
    hooked       \* names handed to discoverFunc

resolveVars == <<surlsCache, hasHook, gpc, gname, gdiscover, tried, calls,
                 epoch, hooked>>

VARIABLES
    \* ---- media fetch (Matrix.downloadAvatar) ----
    mcall,       \* serverName, mediaID and the answer of m.data.GetServer
    mediaURLs,   \* the candidate URLs of getMediaURLs, in order
    httpAnswer,  \* what http.Get answers for every candidate URL
    mpc,         \* position of the caller inside downloadAvatar
    launched,    \* number of goroutines started by the loop
    mgo,         \* position of the goroutine of every candidate URL
    datachan,    \* the buffer of datachan (capacity 1)
    closed,      \* close(datachan) has been executed
    mresult,     \* the URL whose response downloadAvatar returned
    stolen,      \* responses received by a goroutine instead of the caller
    panicked     \* goroutines that sent on the closed channel

mediaVars == <<mcall, mediaURLs, httpAnswer, mpc, launched, mgo, datachan, closed,
               mresult, stolen, panicked>>

VARIABLES
    \* ---- HTTP cache middleware (Cache.Middleware, Stats.SetFinishedAt) ----
    revision,    \* which of the two Cache.Middleware sources is built
    hnow,        \* the clock
    hstored,     \* the FinishedAt timestamps in the store, per process
    hsnapshot,   \* s.stats: the snapshot Stats.Get returns
    hpc,         \* position of the caller inside Stats.SetFinishedAt
    hproc,       \* process of the SetFinishedAt in progress
    lastIndexing, \* time of the last completed SetFinishedAt("indexing")
    hreq,        \* the last request served by the middleware
    hresp        \* and the response to it

httpVars == <<revision, hnow, hstored, hsnapshot, hpc, hproc, lastIndexing,
              hreq, hresp>>

VARIABLES
    \* ---- search query (Search.Search) ----
    qinput,      \* the query string of the call
    qdone,       \* Search has built the query
    qresidual,   \* the query string matchFields returns
    qfields,     \* the fields map matchFields returns
    qbuilt       \* the query handed to the search repository

queryVars == <<qinput, qdone, qresidual, qfields, qbuilt>>

VARIABLES
    \* ---- servers_rooms view (Data.SaveServersRooms) ----
    svExists,    \* the committed database has the servers_rooms bucket
    svView,      \* its committed content: server -> (room id -> body)
    txExists,    \* the same two, as the write transaction sees them
    txView,
    vpc,         \* position of the caller inside SaveServersRooms
    vdata,       \* the argument: server -> list of room ids
    vtodo,       \* servers the range loop has not reached yet
    vcur,        \* server of the current iteration
    vrest,       \* room ids of the current server still to be put
    vret,        \* what SaveServersRooms returned
    vold         \* the committed content when SaveServersRooms was called

viewVars == <<svExists, svView, txExists, txView, vpc, vdata, vtodo, vcur,
              vrest, vret, vold>>

VARIABLES
    \* ---- mutex of the index service (concurrent Ingest runs) ----
    imutex,      \* Index.Mutex: "free" or the goroutine that holds it
    ipc,         \* position of every goroutine inside Ingest
    ieach,       \* Matrix.eachrooming
    ileft,       \* rooms the sweep of every goroutine has still to hand over
    isize,       \* i.batch.Size()
    ithreshold,  \* cfg.Batch.Rooms
    isubmitted   \* number of entries submitted to the index

lockVars == <<imutex, ipc, ieach, ileft, isize, ithreshold, isubmitted>>

VARIABLES
    \* ---- call log of the index service ----
    icalls       \* the calls of RoomsBatch and IndexBatch that have returned

callVars == <<icalls>>

VARIABLES
    \* ---- flush function of the room batch (one bbolt transaction) ----
    rfBucket,    \* the committed rooms bucket: id -> "none", "old" or "new"
    rfTx,        \* the rooms bucket inside the open transaction
    rfpc,        \* position of the flush function
    rfItems,     \* rooms: the ids of the batch handed to the flush function
    rfRest,      \* the rooms the loop has not reached yet
    rfOutcome,   \* outcome of Marshal and Put for every room reached
    rfLogged,    \* the log lines written
    rfOld        \* the committed bucket when the flush function was called

flushVars == <<rfBucket, rfTx, rfpc, rfItems, rfRest, rfOutcome, rfLogged,
               rfOld>>

lateVars == <<callVars, flushVars>>

extraVars == <<resolveVars, mediaVars, httpVars, queryVars, viewVars,
               lockVars, lateVars>>

vars == <<batchVars, facadeVars, pipeVars, discoverVars, parseVars,
          extraVars>>

\* the variables every component leaves alone
coreVars == <<batchVars, facadeVars, pipeVars, discoverVars, parseVars>>
notBatch == <<facadeVars, pipeVars, discoverVars, parseVars, extraVars>>
notFacade == <<batchVars, pipeVars, discoverVars, parseVars, extraVars>>
notPipe == <<batchVars, facadeVars, discoverVars, parseVars, extraVars>>
notDiscover == <<batchVars, facadeVars, pipeVars, parseVars, extraVars>>
notParse == <<batchVars, facadeVars, discoverVars, pipeRest, extraVars>>
notResolve ==
    <<coreVars, mediaVars, httpVars, queryVars, viewVars, lockVars, lateVars>>
notMedia ==
    <<coreVars, resolveVars, httpVars, queryVars, viewVars, lockVars, lateVars>>
notHTTP ==
    <<coreVars, resolveVars, mediaVars, queryVars, viewVars, lockVars, lateVars>>
notQuery ==
    <<coreVars, resolveVars, mediaVars, httpVars, viewVars, lockVars, lateVars>>
notView ==
    <<coreVars, resolveVars, mediaVars, httpVars, queryVars, lockVars, lateVars>>
notLock ==
    <<coreVars, resolveVars, mediaVars, httpVars, queryVars, viewVars, lateVars>>
notCall ==
    <<batchVars, facadeVars, discoverVars, parseVars, resolveVars, mediaVars,
      httpVars, queryVars, viewVars, lockVars, flushVars>>
notFlush ==
    <<coreVars, resolveVars, mediaVars, httpVars, queryVars, viewVars,
      lockVars, callVars>>

(***************************************************************************)
(* Batcher: Batch[T] with concurrent producers (the parsing workers call   *)
(* AddRoomBatch) and one closing Flush (ParseRooms calls FlushRoomBatch    *)
(* after wp.Wait()).                                                       *)
(***************************************************************************)
Producers == {"w1", "w2"}
Closer == "main"
Goroutines == Producers \cup {Closer}
\* every producer issues at most this many Add calls
MaxAdds == 2 * BatchSize

\* the item of the k-th Add of producer p
Item(p, k) == <<p, k>>

\* the room id of an item: the k-th room of every producer has id k
ItemID(it) == it[2]

\* the flush function of the room batch: one Put per room, in the order of
\* the slice, in one write transaction
RECURSIVE PutAll(_, _)
PutAll(b, items) ==
    IF items = <<>> THEN b
    ELSE PutAll([b EXCEPT ![ItemID(Head(items))] = Head(items)], Tail(items))

BatchInit ==
    /\ data = <<>>
    /\ mutex = "free"
    /\ bpc = [g \in Goroutines |-> "idle"]
    /\ nadded = [p \in Producers |-> 0]
    /\ flushed = <<>>
    /\ viaAdd = <<>>
    /\ appendLog = <<>>
    /\ bucket = [id \in 1..MaxAdds |-> <<>>]

\* the mutated Add puts the item at the front of the slice
BatchAddPrepends(p) ==
    /\ p \in Producers
    /\ bpc[p] = "idle"
    /\ nadded[p] < MaxAdds
    /\ mutex = "free"
    /\ mutex' = p
    /\ data' = <<Item(p, nadded[p] + 1)>> \o data
    /\ nadded' = [nadded EXCEPT ![p] = @ + 1]
    /\ appendLog' = Append(appendLog, Item(p, nadded[p] + 1))
    /\ bpc' = [bpc EXCEPT ![p] = "add_unlock"]
    /\ UNCHANGED <<flushed, viaAdd, bucket>>

\* Add is called: b.Lock(); b.data = append(b.data, item)
BatchAdd(p) ==
    /\ p \in Producers
    /\ bpc[p] = "idle"
    /\ nadded[p] < MaxAdds
    /\ mutex = "free"
    /\ mutex' = p
    /\ data' = Append(data, Item(p, nadded[p] + 1))
    /\ nadded' = [nadded EXCEPT ![p] = @ + 1]
    /\ appendLog' = Append(appendLog, Item(p, nadded[p] + 1))
    /\ bpc' = [bpc EXCEPT ![p] = "add_unlock"]
    /\ UNCHANGED <<flushed, viaAdd, bucket>>

\* b.Unlock() of Add
BatchAddUnlock(p) ==
    /\ bpc[p] = "add_unlock"
    /\ mutex = p
    /\ mutex' = "free"
    /\ bpc' = [bpc EXCEPT ![p] = "add_check"]
    /\ UNCHANGED <<data, nadded, flushed, viaAdd, appendLog, bucket>>

\* the mutated Add flushes when the length exceeds the size
BatchAddCheckExceeds(p) ==
    /\ bpc[p] = "add_check"
    /\ bpc' = [bpc EXCEPT ![p] = IF Len(data) > BatchSize
                                  THEN "flush_lock" ELSE "idle"]
    /\ UNCHANGED <<data, mutex, nadded, flushed, viaAdd, appendLog, bucket>>

\* if len(b.data) >= b.size { b.Flush() }: len(b.data) is read without the
\* mutex; the read yields the length at the moment of this step, which may
\* already include or exclude the writes of the other goroutines
BatchAddCheck(p) ==
    /\ bpc[p] = "add_check"
    /\ bpc' = [bpc EXCEPT ![p] = IF Len(data) >= BatchSize
                                  THEN "flush_lock" ELSE "idle"]
    /\ UNCHANGED <<data, mutex, nadded, flushed, viaAdd, appendLog, bucket>>

\* the producer has no more rooms to add
BatchProducerDone(p) ==
    /\ p \in Producers
    /\ bpc[p] = "idle"
    /\ bpc' = [bpc EXCEPT ![p] = "done"]
    /\ UNCHANGED <<data, mutex, nadded, flushed, viaAdd, appendLog, bucket>>

\* the explicit Flush, issued after every producer has returned
BatchCloserFlush ==
    /\ bpc[Closer] = "idle"
    /\ \A p \in Producers : bpc[p] = "done"
    /\ bpc' = [bpc EXCEPT ![Closer] = "flush_lock"]
    /\ UNCHANGED <<data, mutex, nadded, flushed, viaAdd, appendLog, bucket>>

\* Flush: b.Lock(); b.flushfunc(b.data)
BatchFlushCall(g) ==
    /\ bpc[g] = "flush_lock"
    /\ mutex = "free"
    /\ mutex' = g
    /\ flushed' = Append(flushed, data)
    /\ viaAdd' = Append(viaAdd, g \in Producers)
    /\ bucket' = PutAll(bucket, data)
    /\ bpc' = [bpc EXCEPT ![g] = "flush_reset"]
    /\ UNCHANGED <<data, nadded, appendLog>>

\* the mutated Flush: the slice is not reallocated after flushfunc
BatchFlushResetKeepsData(g) ==
    /\ bpc[g] = "flush_reset"
    /\ mutex = g
    /\ data' = data
    /\ mutex' = "free"
    /\ bpc' = [bpc EXCEPT ![g] = IF g = Closer THEN "done" ELSE "idle"]
    /\ UNCHANGED <<nadded, flushed, viaAdd, appendLog, bucket>>

\* Flush: b.data = make([]T, 0, b.size); b.Unlock()
BatchFlushReset(g) ==
    /\ bpc[g] = "flush_reset"
    /\ mutex = g
    /\ data' = <<>>
    /\ mutex' = "free"
    /\ bpc' = [bpc EXCEPT ![g] = IF g = Closer THEN "done" ELSE "idle"]
    /\ UNCHANGED <<nadded, flushed, viaAdd, appendLog, bucket>>

BatchNext ==
    \/ \E p \in Producers : BatchAdd(p) /\ UNCHANGED notBatch
    \/ \E p \in Producers : BatchAddUnlock(p) /\ UNCHANGED notBatch
    \/ \E p \in Producers : BatchAddCheck(p) /\ UNCHANGED notBatch
    \/ \E p \in Producers : BatchProducerDone(p) /\ UNCHANGED notBatch
    \/ BatchCloserFlush /\ UNCHANGED notBatch
    \/ \E g \in Goroutines : BatchFlushCall(g) /\ UNCHANGED notBatch
    \/ \E g \in Goroutines : BatchFlushReset(g) /\ UNCHANGED notBatch

(***************************************************************************)
(* Data facade (DiscoverServers, ParseRooms, Ingest, Full), the stats      *)
(* timestamps and the phase latches.  Callers are goroutines of the        *)
(* scheduler and of the admin API; they may run concurrently.  Every       *)
(* facade method is the sequence of calls of its source, executed one call *)
(* at a time; a latch-guarded operation is executed in four steps (check,  *)
(* set, body, deferred reset).                                             *)
(***************************************************************************)
Callers == {"f1", "f2"}
Phases == {"discovery", "parsing", "indexing"}
Latches == {"discovering", "parsing", "eachrooming", "collecting"}
\* rooms the sweep of the facade model hands over at most
MaxSweepRooms == 2

Ins(op, ph) == [op |-> op, ph |-> ph]

\* DataFacade.DiscoverServers
ProgDiscoverServers ==
    << Ins("now", "discovery"), Ins("SetStartedAt", "discovery"),
       Ins("DiscoverServers", "discovery"),
       Ins("now", "discovery"), Ins("SetFinishedAt", "discovery"),
       Ins("Collect", "discovery") >>

\* DataFacade.ParseRooms
ProgParseRooms ==
    << Ins("now", "parsing"), Ins("SetStartedAt", "parsing"),
       Ins("ParseRooms", "parsing"),
       Ins("now", "parsing"), Ins("SetFinishedAt", "parsing"),
       Ins("Collect", "parsing") >>

\* the mutated DataFacade.Ingest: the cache is purged before the sweep
ProgIngestPurgeFirst ==
    << Ins("now", "indexing"), Ins("SetStartedAt", "indexing"),
       Ins("Purge", "indexing"),
       Ins("EachRoom", "indexing"), Ins("IndexBatch", "indexing"),
       Ins("now", "indexing"), Ins("SetFinishedAt", "indexing"),
       Ins("Collect", "indexing") >>

\* DataFacade.Ingest
ProgIngest ==
    << Ins("now", "indexing"), Ins("SetStartedAt", "indexing"),
       Ins("EachRoom", "indexing"), Ins("IndexBatch", "indexing"),
       Ins("now", "indexing"), Ins("SetFinishedAt", "indexing"),
       Ins("Collect", "indexing"), Ins("Purge", "indexing") >>

\* DataFacade.Full
ProgFull == ProgDiscoverServers \o ProgParseRooms \o ProgIngest

Methods == {"DiscoverServers", "ParseRooms", "Ingest", "Full"}
\* f1 is any request; f2 is a request for one phase that runs beside it
MethodsOf(c) == IF c = "f1" THEN Methods ELSE Methods \ {"Full"}

Program(m) ==
    CASE m = "DiscoverServers" -> ProgDiscoverServers
      [] m = "ParseRooms" -> ProgParseRooms
      [] m = "Ingest" -> ProgIngest
      [] m = "Full" -> ProgFull
      [] OTHER -> <<>>

\* the latch that guards an operation
LatchOf(op) ==
    CASE op = "DiscoverServers" -> "discovering"
      [] op = "ParseRooms" -> "parsing"
      [] op = "EachRoom" -> "eachrooming"
      [] op = "Collect" -> "collecting"

Guarded == {"DiscoverServers", "ParseRooms", "EachRoom", "Collect"}

Returned(c) == fip[c] > Len(Program(fmethod[c]))
Cur(c) == Program(fmethod[c])[fip[c]]
At(c, op) == ~Returned(c) /\ Cur(c).op = op

FacadeInit ==
    /\ now = 1
    /\ startedAt = [ph \in Phases |-> 0]
    /\ finishedAt = [ph \in Phases |-> 0]
    /\ stats = [startedAt |-> startedAt, finishedAt |-> finishedAt]
    /\ lastStat = <<"none", "none", 0>>
    /\ latch = [l \in Latches |-> FALSE]
    /\ fmethod = [c \in Callers |-> "none"]
    /\ fip = [c \in Callers |-> 1]
    /\ fstep = [c \in Callers |-> "check"]
    /\ targ = [c \in Callers |-> 0]
    /\ fk = [c \in Callers |-> 0]
    /\ trace = [c \in Callers |-> <<>>]
    /\ ignored = [c \in Callers |-> {}]
    /\ nrooms \in 0..MaxSweepRooms

FacadeIdle == FacadeInit /\ nrooms = 0

\* a caller (scheduler tick or admin request) invokes a facade method
FacadeInvoke(c, m) ==
    /\ fmethod[c] = "none"
    /\ m \in MethodsOf(c)
    /\ fmethod' = [fmethod EXCEPT ![c] = m]
    /\ fip' = [fip EXCEPT ![c] = 1]
    /\ fstep' = [fstep EXCEPT ![c] = "check"]
    /\ trace' = [trace EXCEPT ![c] = <<>>]
    /\ ignored' = [ignored EXCEPT ![c] = {}]
    /\ UNCHANGED <<now, startedAt, finishedAt, stats, lastStat, latch, targ,
                   fk, nrooms>>

\* time.Now().UTC(), evaluated as the argument of the call that follows
FacadeNow(c) ==
    /\ At(c, "now")
    /\ targ' = [targ EXCEPT ![c] = now]
    /\ now' = now + 1
    /\ fip' = [fip EXCEPT ![c] = @ + 1]
    /\ UNCHANGED <<startedAt, finishedAt, stats, lastStat, latch, fmethod,
                   fstep, fk, trace, ignored, nrooms>>

\* Stats.SetStartedAt: store the timestamp, reload the snapshot
SetStartedAt(c) ==
    /\ At(c, "SetStartedAt")
    /\ startedAt' = [startedAt EXCEPT ![Cur(c).ph] = targ[c]]
    /\ stats' = [startedAt |-> startedAt', finishedAt |-> finishedAt]
    /\ lastStat' = <<"started", Cur(c).ph, targ[c]>>
    /\ trace' = [trace EXCEPT ![c] = Append(@, <<"SetStartedAt", Cur(c).ph>>)]
    /\ fip' = [fip EXCEPT ![c] = @ + 1]
    /\ UNCHANGED <<now, finishedAt, latch, fmethod, fstep, targ, fk,
                   ignored, nrooms>>

\* Stats.SetFinishedAt: store the timestamp, reload the snapshot
SetFinishedAt(c) ==
    /\ At(c, "SetFinishedAt")
    /\ finishedAt' = [finishedAt EXCEPT ![Cur(c).ph] = targ[c]]
    /\ stats' = [startedAt |-> startedAt, finishedAt |-> finishedAt']
    /\ lastStat' = <<"finished", Cur(c).ph, targ[c]>>
    /\ trace' = [trace EXCEPT ![c] = Append(@, <<"SetFinishedAt", Cur(c).ph>>)]
    /\ fip' = [fip EXCEPT ![c] = @ + 1]
    /\ UNCHANGED <<now, startedAt, latch, fmethod, fstep, targ, fk,
                   ignored, nrooms>>

InGuarded(c, step) == ~Returned(c) /\ Cur(c).op \in Guarded /\ fstep[c] = step

\* if m.discovering { return nil }  (likewise parsing, eachrooming,
\* collecting): the read of the latch
LatchCheck(c) ==
    /\ InGuarded(c, "check")
    /\ trace' = [trace EXCEPT ![c] = Append(@, <<Cur(c).op, Cur(c).ph>>)]
    /\ IF latch[LatchOf(Cur(c).op)]
       THEN /\ ignored' = [ignored EXCEPT ![c] = @ \cup {<<Cur(c).op, Cur(c).ph>>}]
            /\ fip' = [fip EXCEPT ![c] = @ + 1]
            /\ UNCHANGED fstep
       ELSE /\ fstep' = [fstep EXCEPT ![c] = "set"]
            /\ UNCHANGED <<fip, ignored>>
    /\ UNCHANGED <<now, startedAt, finishedAt, stats, lastStat, latch,
                   fmethod, targ, fk, nrooms>>

\* m.discovering = true: the write of the latch
LatchSet(c) ==
    /\ InGuarded(c, "set")
    /\ latch' = [latch EXCEPT ![LatchOf(Cur(c).op)] = TRUE]
    /\ fstep' = [fstep EXCEPT ![c] = "body"]
    /\ fk' = [fk EXCEPT ![c] = 0]
    /\ UNCHANGED <<now, startedAt, finishedAt, stats, lastStat, fmethod, fip,
                   targ, trace, ignored, nrooms>>

\* the body of the guarded operation; the sweep of EachRoom calls the
\* handler (Index.RoomsBatch) once for every room
LatchBody(c) ==
    /\ InGuarded(c, "body")
    /\ IF Cur(c).op = "EachRoom" /\ fk[c] < nrooms
       THEN /\ fk' = [fk EXCEPT ![c] = @ + 1]
            /\ trace' = [trace EXCEPT ![c] = Append(@, <<"RoomsBatch", Cur(c).ph>>)]
            /\ UNCHANGED fstep
       ELSE /\ fstep' = [fstep EXCEPT ![c] = "release"]
            /\ UNCHANGED <<fk, trace>>
    /\ UNCHANGED <<now, startedAt, finishedAt, stats, lastStat, latch,
                   fmethod, fip, targ, ignored, nrooms>>

\* defer func() { m.discovering = false }()
LatchRelease(c) ==
    /\ InGuarded(c, "release")
    /\ latch' = [latch EXCEPT ![LatchOf(Cur(c).op)] = FALSE]
    /\ fstep' = [fstep EXCEPT ![c] = "check"]
    /\ fip' = [fip EXCEPT ![c] = @ + 1]
    /\ UNCHANGED <<now, startedAt, finishedAt, stats, lastStat, fmethod,
                   targ, fk, trace, ignored, nrooms>>

\* df.index.IndexBatch() and df.cache.Purge(): calls without a latch
FacadeCall(c) ==
    /\ ~Returned(c)
    /\ Cur(c).op \in {"IndexBatch", "Purge"}
    /\ trace' = [trace EXCEPT ![c] = Append(@, <<Cur(c).op, Cur(c).ph>>)]
    /\ fip' = [fip EXCEPT ![c] = @ + 1]
    /\ UNCHANGED <<now, startedAt, finishedAt, stats, lastStat, latch,
                   fmethod, fstep, targ, fk, ignored, nrooms>>

FacadeNext ==
    \/ \E c \in Callers, m \in Methods : FacadeInvoke(c, m) /\ UNCHANGED notFacade
    \/ \E c \in Callers : FacadeNow(c) /\ UNCHANGED notFacade
    \/ \E c \in Callers : SetStartedAt(c) /\ UNCHANGED notFacade
    \/ \E c \in Callers : SetFinishedAt(c) /\ UNCHANGED notFacade
    \/ \E c \in Callers : LatchCheck(c) /\ UNCHANGED notFacade
    \/ \E c \in Callers : LatchSet(c) /\ UNCHANGED notFacade
    \/ \E c \in Callers : LatchBody(c) /\ UNCHANGED notFacade
    \/ \E c \in Callers : LatchRelease(c) /\ UNCHANGED notFacade
    \/ \E c \in Callers : FacadeCall(c) /\ UNCHANGED notFacade

(***************************************************************************)
(* Rooms store, blocklist, Matrix.EachRoom, the index service, search and  *)
(* the room counters of the stats.  One admin goroutine runs Ingest or a   *)
(* reindex (EmptyIndex, then Ingest) at a time; searches and additions to  *)
(* the blocklist arrive at any moment.  The timestamps Ingest writes are   *)
(* modelled with the facade above.                                         *)
(***************************************************************************)
RoomIDs == 1..NumRooms
Servers == {"s1", "s2"}
\* the origin server of a room
ServerOf(r) == IF r % 2 = 1 THEN "s1" ELSE "s2"
\* the canonical alias of a room; 0 is the empty alias
AliasOf(r) == IF r % 2 = 0 THEN 10 + r ELSE 0
\* what the environment may add to the blocklist
BlockableIDs == {1, 12}
BlockableServers == {"s1"}

\* Blocklist.ByID
ByID(id) == id \in blockIDs
\* Blocklist.ByServer
ByServer(name) == name \in blockServers

\* Entry.IsBlocked
IsBlocked(r) ==
    IF ByID(r) THEN TRUE
    ELSE IF ByID(AliasOf(r)) THEN TRUE
    ELSE IF ByServer(ServerOf(r)) THEN TRUE
    ELSE FALSE

Min(S) == CHOOSE x \in S : \A y \in S : x <= y

\* the documents of an index a query for a server term matches
Match(q, docs) == {r \in docs : ServerOf(r) = q}

\* the blocklist is empty
BlocklistInit ==
    /\ blockIDs = {}
    /\ blockServers = {}

PipeInit ==
    /\ rooms \in {1..n : n \in 0..NumRooms}
    /\ threshold \in 1..MaxThreshold
    /\ index = {}
    /\ sibling = "none"
    /\ batch = {}
    /\ eachrooming = FALSE
    /\ collecting = FALSE
    /\ pop = "none"
    /\ ppc = "idle"
    /\ remaining = {}
    /\ toRemove = {}
    /\ handed = {}
    /\ failed = FALSE
    /\ oldDocs = {}
    /\ fresh = FALSE
    /\ parsed = 0
    /\ indexed = 0
    /\ snap = [parsed |-> 0, indexed |-> 0]
    /\ found = [q |-> "none", result |-> {}, blocked |-> {},
                 when |-> "other", old |-> {}]

PipeIdle == PipeInit /\ rooms = {} /\ threshold = 1

\* an id or alias is added to the blocklist
BlockAddID(id) ==
    /\ id \notin blockIDs
    /\ blockIDs' = blockIDs \cup {id}
    /\ UNCHANGED <<rooms, blockServers, threshold, index, sibling, batch,
                   eachrooming, collecting, pop, ppc, remaining, toRemove,
                   handed, failed, oldDocs, fresh, parsed, indexed, snap, found>>

\* a server is added to the blocklist
BlockAddServer(name) ==
    /\ name \notin blockServers
    /\ blockServers' = blockServers \cup {name}
    /\ UNCHANGED <<rooms, blockIDs, threshold, index, sibling, batch,
                   eachrooming, collecting, pop, ppc, remaining, toRemove,
                   handed, failed, oldDocs, fresh, parsed, indexed, snap, found>>

\* Search.Search: the repository answers from the live index
Search(q) ==
    /\ found' = [q |-> q, result |-> Match(q, index),
                 blocked |-> {r \in Match(q, index) : IsBlocked(r)},
                 when |-> IF ppc = "empty_promote" THEN "swapping"
                          ELSE IF fresh THEN "swapped" ELSE "other",
                 old |-> oldDocs]
    /\ UNCHANGED <<rooms, blockIDs, blockServers, threshold, index, sibling,
                   batch, eachrooming, collecting, pop, ppc, remaining,
                   toRemove, handed, failed, oldDocs, fresh, parsed, indexed,
                   snap>>

\* the admin goroutine starts Ingest or a reindex
PipeInvoke(o) ==
    /\ ppc = "idle"
    /\ pop' = o
    /\ ppc' = IF o = "Reindex" THEN "empty_build" ELSE "each_check"
    /\ handed' = {}
    /\ failed' = FALSE
    /\ UNCHANGED <<rooms, blockIDs, blockServers, threshold, index, sibling,
                   batch, eachrooming, collecting, remaining, toRemove,
                   oldDocs, fresh, parsed, indexed, snap, found>>

\* IndexRepository.Swap: a new empty index is built in a sibling location
SwapBuild ==
    /\ ppc = "empty_build"
    /\ sibling' = {}
    /\ oldDocs' = index
    /\ ppc' = "empty_promote"
    /\ UNCHANGED <<rooms, blockIDs, blockServers, threshold, index, batch,
                   eachrooming, collecting, pop, remaining, toRemove, handed,
                   failed, fresh, parsed, indexed, snap, found>>

\* the live index is emptied in place, one document at a time
SwapPromoteInPlace ==
    /\ ppc = "empty_promote"
    /\ IF index = {}
       THEN /\ sibling' = "none"
            /\ fresh' = TRUE
            /\ ppc' = "each_check"
            /\ UNCHANGED index
       ELSE /\ index' = index \ {Min(index)}
            /\ UNCHANGED <<sibling, fresh, ppc>>
    /\ UNCHANGED <<rooms, blockIDs, blockServers, threshold, batch,
                   eachrooming, collecting, pop, remaining, toRemove, handed,
                   failed, oldDocs, parsed, indexed, snap, found>>

\* IndexRepository.Swap: the new index is promoted in one step
SwapPromote ==
    /\ ppc = "empty_promote"
    /\ index' = sibling
    /\ sibling' = "none"
    /\ fresh' = TRUE
    /\ ppc' = "each_check"
    /\ UNCHANGED <<rooms, blockIDs, blockServers, threshold, batch,
                   eachrooming, collecting, pop, remaining, toRemove, handed,
                   failed, oldDocs, parsed, indexed, snap, found>>

\* the mutated EmptyIndex empties the live index in place
EmptyIndexInPlace == SwapBuild \/ SwapPromoteInPlace

\* Index.EmptyIndex: return i.index.Swap()
EmptyIndex == SwapBuild \/ SwapPromote

\* Matrix.EachRoom: if m.eachrooming { return }
EachRoomCheck ==
    /\ ppc = "each_check"
    /\ ppc' = IF eachrooming THEN "index_batch" ELSE "each_set"
    /\ UNCHANGED <<rooms, blockIDs, blockServers, threshold, index, sibling,
                   batch, eachrooming, collecting, pop, remaining, toRemove,
                   handed, failed, oldDocs, fresh, parsed, indexed, snap,
                   found>>

\* Matrix.EachRoom: m.eachrooming = true; toRemove := []string{}; the
\* iteration of the store opens a read transaction on the rooms bucket
EachRoomSet ==
    /\ ppc = "each_set"
    /\ eachrooming' = TRUE
    /\ toRemove' = {}
    /\ remaining' = rooms
    /\ ppc' = "each_iter"
    /\ UNCHANGED <<rooms, blockIDs, blockServers, threshold, index, sibling,
                   batch, collecting, pop, handed, failed, oldDocs, fresh,
                   parsed, indexed, snap, found>>

\* Index.IndexBatch: submit the batch to the index (ok: the submission
\* succeeds), reset the batch
\* Index.IndexBatch: return err
IndexBatchErr(ok) == ~ok

\* the mutated call resets the batch only when the submission succeeded
IndexBatchResetOnSuccess(ok) ==
    /\ index' = IF ok THEN index \cup batch ELSE index
    /\ batch' = IF ok THEN {} ELSE batch
    /\ failed' = (failed \/ IndexBatchErr(ok))
    /\ fresh' = FALSE

IndexBatch(ok) ==
    /\ index' = IF ok THEN index \cup batch ELSE index
    /\ batch' = {}
    /\ failed' = (failed \/ IndexBatchErr(ok))
    /\ fresh' = FALSE

\* Index.RoomsBatch, called by the handler of Ingest under the mutex of the
\* index service
RoomsBatch(r, ok) ==
    IF Cardinality(batch) >= threshold
    THEN IndexBatch(ok)
    ELSE /\ batch' = batch \cup {r}
         /\ UNCHANGED <<index, failed, fresh>>

\* Index.RoomsBatch: return i.IndexBatch(), or the nil of i.batch.Index
RoomsBatchErr(ok) ==
    IF Cardinality(batch) >= threshold THEN IndexBatchErr(ok) ELSE FALSE

\* the mutated callback collects a blocked room and goes on to the handler
EachRoomVisitNoReturn ==
    /\ ppc = "each_iter"
    /\ remaining # {}
    /\ LET r == Min(remaining) IN
        /\ remaining' = remaining \ {r}
        /\ toRemove' = IF IsBlocked(r) THEN toRemove \cup {r} ELSE toRemove
        /\ handed' = handed \cup {r}
        /\ \E ok \in BOOLEAN : RoomsBatch(r, ok)
    /\ UNCHANGED <<rooms, blockIDs, blockServers, threshold, sibling,
                   eachrooming, collecting, pop, ppc, oldDocs, parsed, indexed,
                   snap, found>>

\* the mutated callback removes a blocked room from the store at once
EachRoomVisitRemovesNow ==
    /\ ppc = "each_iter"
    /\ remaining # {}
    /\ LET r == Min(remaining) IN
        /\ remaining' = remaining \ {r}
        /\ IF IsBlocked(r)
           THEN /\ rooms' = rooms \ {r}
                /\ UNCHANGED <<toRemove, handed, index, batch, failed, fresh>>
           ELSE /\ handed' = handed \cup {r}
                /\ \E ok \in BOOLEAN : RoomsBatch(r, ok)
                /\ UNCHANGED <<toRemove, rooms>>
    /\ UNCHANGED <<blockIDs, blockServers, threshold, sibling,
                   eachrooming, collecting, pop, ppc, oldDocs, parsed, indexed,
                   snap, found>>

\* Matrix.EachRoom: the callback of the iteration, for the next room in key
\* order
EachRoomVisit ==
    /\ ppc = "each_iter"
    /\ remaining # {}
    /\ LET r == Min(remaining) IN
        /\ remaining' = remaining \ {r}
        /\ IF IsBlocked(r)
           THEN /\ toRemove' = toRemove \cup {r}
                /\ UNCHANGED <<handed, index, batch, failed, fresh>>
           ELSE /\ handed' = handed \cup {r}
                /\ \E ok \in BOOLEAN : RoomsBatch(r, ok)
                /\ UNCHANGED toRemove
    /\ UNCHANGED <<rooms, blockIDs, blockServers, threshold, sibling,
                   eachrooming, collecting, pop, ppc, oldDocs, parsed, indexed,
                   snap, found>>

\* Matrix.EachRoom: m.data.RemoveRooms(toRemove), after the iteration
EachRoomRemove ==
    /\ ppc = "each_iter"
    /\ remaining = {}
    /\ rooms' = rooms \ toRemove
    /\ ppc' = "each_release"
    /\ UNCHANGED <<blockIDs, blockServers, threshold, index, sibling, batch,
                   eachrooming, collecting, pop, remaining, toRemove, handed,
                   failed, oldDocs, fresh, parsed, indexed, snap, found>>

\* Matrix.EachRoom: defer func() { m.eachrooming = false }()
EachRoomRelease ==
    /\ ppc = "each_release"
    /\ eachrooming' = FALSE
    /\ ppc' = "index_batch"
    /\ UNCHANGED <<rooms, blockIDs, blockServers, threshold, index, sibling,
                   batch, collecting, pop, remaining, toRemove, handed, failed,
                   oldDocs, fresh, parsed, indexed, snap, found>>

\* DataFacade.Ingest: df.index.IndexBatch() for the last batch
IngestIndexBatch ==
    /\ ppc = "index_batch"
    /\ \E ok \in BOOLEAN : IndexBatch(ok)
    /\ ppc' = "collect"
    /\ UNCHANGED <<rooms, blockIDs, blockServers, threshold, sibling,
                   eachrooming, collecting, pop, remaining, toRemove, handed,
                   oldDocs, parsed, indexed, snap, found>>

\* Stats.Collect: latch, count the stored rooms, read Index.Len(), store
\* both counters
CollectCount ==
    /\ ppc = "collect"
    /\ IF collecting
       THEN /\ ppc' = "idle"
            /\ UNCHANGED <<collecting, parsed, indexed>>
       ELSE /\ collecting' = TRUE
            /\ parsed' = Cardinality(rooms)
            /\ indexed' = Cardinality(index)
            /\ ppc' = "collect_reload"
    /\ UNCHANGED <<rooms, blockIDs, blockServers, threshold, index, sibling,
                   batch, eachrooming, pop, remaining, toRemove, handed, failed,
                   oldDocs, fresh, snap, found>>

\* Stats.Collect: s.reload(), then the deferred reset of the latch;
\* DataFacade.Ingest returns after Cache.Purge
CollectReload ==
    /\ ppc = "collect_reload"
    /\ snap' = [parsed |-> parsed, indexed |-> indexed]
    /\ collecting' = FALSE
    /\ ppc' = "idle"
    /\ UNCHANGED <<rooms, blockIDs, blockServers, threshold, index, sibling,
                   batch, eachrooming, pop, remaining, toRemove, handed, failed,
                   oldDocs, fresh, parsed, indexed, found>>

PipeNext ==
    \/ \E id \in BlockableIDs : BlockAddID(id) /\ UNCHANGED notPipe
    \/ \E name \in BlockableServers : BlockAddServer(name) /\ UNCHANGED notPipe
    \/ \E q \in Servers : Search(q) /\ UNCHANGED notPipe
    \/ \E o \in {"Ingest", "Reindex"} : PipeInvoke(o) /\ UNCHANGED notPipe
    \/ EmptyIndex /\ UNCHANGED notPipe
    \/ EachRoomCheck /\ UNCHANGED notPipe
    \/ EachRoomSet /\ UNCHANGED notPipe
    \/ EachRoomVisit /\ UNCHANGED notPipe
    \/ EachRoomRemove /\ UNCHANGED notPipe
    \/ EachRoomRelease /\ UNCHANGED notPipe
    \/ IngestIndexBatch /\ UNCHANGED notPipe
    \/ CollectCount /\ UNCHANGED notPipe
    \/ CollectReload /\ UNCHANGED notPipe

(***************************************************************************)
(* Matrix.DiscoverServers.  One goroutine calls DiscoverServers, up to     *)
(* MaxRuns times in sequence; the tasks it submits run on the work pool,   *)
(* at most Workers at a time.  The blocklist is fixed during a behaviour   *)
(* and the store accepts every write.                                      *)
(***************************************************************************)
Names == {"a.example", "b.example", "c.example"}
URLs == {"", "url"}
NoServer == [present |-> FALSE, url |-> "", online |-> FALSE]
Server(url, online) == [present |-> TRUE, url |-> url, online |-> online]

\* DataRepository.AllServers, utils.MapKeys: the names of the stored servers
AllServers == {n \in Names : dstore[n].present}
\* DataRepository.GetServer: the stored URL, empty for an unknown server
GetServer(n) == IF dstore[n].present THEN dstore[n].url ELSE ""
\* utils.MergeSlices: the names of both lists, each once
MergeSlices(a, b) == a \cup b

DiscoverInit ==
    /\ dstore \in [Names -> {NoServer} \cup {Server(u, TRUE) : u \in URLs}]
    /\ seeds \in SUBSET Names
    /\ discovering = FALSE
    /\ dpc = "idle"
    /\ drun = 0
    /\ todo = {}
    /\ tstate = [n \in Names |-> "none"]
    /\ runStart = dstore
    /\ fetched = {}
    /\ probed = {}
    /\ added = {}
    /\ removed = {}
    /\ visited = {}
    /\ probeResult = [n \in Names |-> "none"]
    /\ addCount = [n \in Names |-> 0]
    /\ poolClosed = FALSE
    /\ failedAdd = {}

DiscoverIdle ==
    /\ DiscoverInit
    /\ dstore = [n \in Names |-> NoServer]
    /\ seeds = {}

\* a caller invokes Matrix.DiscoverServers
DiscoverInvoke ==
    /\ dpc = "idle"
    /\ drun < MaxRuns
    /\ dpc' = "check"
    /\ UNCHANGED <<dstore, seeds, discovering, drun, todo, tstate, runStart,
                   fetched, probed, added, removed, visited>>
    /\ UNCHANGED <<probeResult, addCount, poolClosed, failedAdd>>

\* if m.discovering { return nil }
DiscoverCheck ==
    /\ dpc = "check"
    /\ dpc' = IF discovering THEN "idle" ELSE "set"
    /\ UNCHANGED <<dstore, seeds, discovering, drun, todo, tstate, runStart,
                   fetched, probed, added, removed, visited>>
    /\ UNCHANGED <<probeResult, addCount, poolClosed, failedAdd>>

\* m.discovering = true; servers := MergeSlices(MapKeys(AllServers()), m.servers)
DiscoverSet ==
    /\ dpc = "set"
    /\ discovering' = TRUE
    /\ todo' = MergeSlices(AllServers, seeds)
    /\ tstate' = [n \in Names |-> "none"]
    /\ runStart' = dstore
    /\ fetched' = {}
    /\ probed' = {}
    /\ added' = {}
    /\ removed' = {}
    /\ visited' = {}
    /\ probeResult' = [n \in Names |-> "none"]
    /\ addCount' = [n \in Names |-> 0]
    /\ poolClosed' = FALSE
    /\ failedAdd' = {}
    /\ dpc' = "loop"
    /\ UNCHANGED <<dstore, seeds, drun>>

\* DataRepository.RemoveServer
RemoveServer(n) ==
    /\ dstore' = [dstore EXCEPT ![n] = NoServer]
    /\ removed' = removed \cup {n}

\* DataRepository.AddServer: the record is stored with the URL u
AddServer(n, u, online) ==
    /\ dstore' = [dstore EXCEPT ![n] = Server(u, online)]
    /\ added' = added \cup {n}
    /\ addCount' = [addCount EXCEPT ![n] = @ + 1]

\* the mutated loop skips a blocked server and leaves it in the store
DiscoverDispatchSkipBlocked(n) ==
    /\ dpc = "loop"
    /\ n \in todo
    /\ todo' = todo \ {n}
    /\ IF ByServer(n)
       THEN UNCHANGED <<dstore, removed, tstate>>
       ELSE /\ tstate' = [tstate EXCEPT ![n] = "queued"]
            /\ UNCHANGED <<dstore, removed>>
    /\ UNCHANGED <<seeds, discovering, dpc, drun, runStart, fetched, probed,
                   added, visited>>
    /\ UNCHANGED <<probeResult, addCount, poolClosed, failedAdd>>

\* the loop of DiscoverServers, for one name: a blocked server is removed
\* from the store, any other is submitted to the work pool
DiscoverDispatch(n) ==
    /\ dpc = "loop"
    /\ n \in todo
    /\ todo' = todo \ {n}
    /\ IF ByServer(n)
       THEN /\ RemoveServer(n)
            /\ UNCHANGED tstate
       ELSE /\ tstate' = [tstate EXCEPT ![n] = "queued"]
            /\ UNCHANGED <<dstore, removed>>
    /\ UNCHANGED <<seeds, discovering, dpc, drun, runStart, fetched, probed,
                   added, visited>>
    /\ UNCHANGED <<probeResult, addCount, poolClosed, failedAdd>>

\* the loop is over: return wp.Wait()
DiscoverWaitCall ==
    /\ dpc = "loop"
    /\ todo = {}
    /\ dpc' = "wait"
    /\ UNCHANGED <<dstore, seeds, discovering, drun, todo, tstate, runStart,
                   fetched, probed, added, removed, visited>>
    /\ UNCHANGED <<probeResult, addCount, poolClosed, failedAdd>>

Running == {n \in Names : tstate[n] \in {"contacts", "probe"}}

\* the mutated discoverServer ignores the stored URL
DiscoverServerNoSkip(n) ==
    /\ tstate[n] = "queued"
    /\ ~poolClosed
    /\ Cardinality(Running) < Workers
    /\ IF ByServer(n)
       THEN /\ RemoveServer(n)
            /\ tstate' = [tstate EXCEPT ![n] = "done"]
            /\ visited' = visited \cup {n}
       ELSE /\ tstate' = [tstate EXCEPT ![n] = "contacts"]
            /\ UNCHANGED <<dstore, removed, visited>>
    /\ UNCHANGED <<seeds, discovering, dpc, drun, todo, runStart, fetched,
                   probed, added>>
    /\ UNCHANGED <<probeResult, addCount, poolClosed, failedAdd>>

\* Matrix.discoverServer, run by a worker: a blocked server is removed, a
\* server stored with a URL is left alone
DiscoverServer(n) ==
    /\ tstate[n] = "queued"
    /\ ~poolClosed
    /\ Cardinality(Running) < Workers
    /\ IF ByServer(n)
       THEN /\ RemoveServer(n)
            /\ tstate' = [tstate EXCEPT ![n] = "done"]
            /\ visited' = visited \cup {n}
       ELSE IF GetServer(n) # ""
       THEN /\ tstate' = [tstate EXCEPT ![n] = "done"]
            /\ visited' = visited \cup {n}
            /\ UNCHANGED <<dstore, removed>>
       ELSE /\ tstate' = [tstate EXCEPT ![n] = "contacts"]
            /\ UNCHANGED <<dstore, removed, visited>>
    /\ UNCHANGED <<seeds, discovering, dpc, drun, todo, runStart, fetched,
                   probed, added>>
    /\ UNCHANGED <<probeResult, addCount, poolClosed, failedAdd>>

\* Matrix.discoverServer: m.getServerContacts(name)
DiscoverServerContacts(n) ==
    /\ tstate[n] = "contacts"
    /\ fetched' = fetched \cup {n}
    /\ tstate' = [tstate EXCEPT ![n] = "probe"]
    /\ UNCHANGED <<dstore, seeds, discovering, dpc, drun, todo, runStart,
                   probed, added, removed, visited>>
    /\ UNCHANGED <<probeResult, addCount, poolClosed, failedAdd>>

\* the mutated discoverServer returns without storing the server when the
\* probe fails
DiscoverServerValidateDropsOffline(n) ==
    /\ tstate[n] = "probe"
    /\ probed' = probed \cup {n}
    /\ \E ok \in BOOLEAN, u \in URLs :
        /\ probeResult' = [probeResult EXCEPT ![n] = IF ok THEN "ok" ELSE "failed"]
        /\ IF ok THEN AddServer(n, u, ok)
                 ELSE UNCHANGED <<dstore, added, addCount>>
    /\ tstate' = [tstate EXCEPT ![n] = "done"]
    /\ visited' = visited \cup {n}
    /\ UNCHANGED <<seeds, discovering, dpc, drun, todo, runStart, fetched,
                   removed, poolClosed, failedAdd>>

\* Matrix.discoverServer: m.validateDiscoveredServer(name) answers ok; the
\* record is stored with Online = ok
DiscoverServerValidate(n) ==
    /\ tstate[n] = "probe"
    /\ probed' = probed \cup {n}
    /\ \E ok \in BOOLEAN, u \in URLs :
        /\ probeResult' = [probeResult EXCEPT ![n] = IF ok THEN "ok" ELSE "failed"]
        /\ AddServer(n, u, ok)
    /\ tstate' = [tstate EXCEPT ![n] = "done"]
    /\ visited' = visited \cup {n}
    /\ UNCHANGED <<seeds, discovering, dpc, drun, todo, runStart, fetched,
                   removed, poolClosed, failedAdd>>

\* wp.Wait() returns when every task has returned; the deferred reset of
\* the latch runs
DiscoverWait ==
    /\ dpc = "wait"
    /\ \A n \in Names : tstate[n] \in {"none", "done", "skipped"}
    /\ discovering' = FALSE
    /\ drun' = drun + 1
    /\ dpc' = "idle"
    /\ UNCHANGED <<dstore, seeds, todo, tstate, runStart, fetched, probed,
                   added, removed, visited>>
    /\ UNCHANGED <<probeResult, addCount, poolClosed, failedAdd>>

\* Matrix.discoverServer when the store rejects the write: the probe has
\* answered, AddServer returns an error, the task returns it to the pool
DiscoverServerAddFails(n) ==
    /\ tstate[n] = "probe"
    /\ probed' = probed \cup {n}
    /\ \E ok \in BOOLEAN :
        probeResult' = [probeResult EXCEPT ![n] = IF ok THEN "ok" ELSE "failed"]
    /\ failedAdd' = failedAdd \cup {n}
    /\ poolClosed' = TRUE
    /\ tstate' = [tstate EXCEPT ![n] = "done"]
    /\ visited' = visited \cup {n}
    /\ UNCHANGED <<dstore, seeds, discovering, dpc, drun, todo, runStart,
                   fetched, added, removed, addCount>>

\* the work pool after a task has returned an error: a task still in the
\* queue is taken out without being run
PoolSkip(n) ==
    /\ tstate[n] = "queued"
    /\ poolClosed
    /\ tstate' = [tstate EXCEPT ![n] = "skipped"]
    /\ UNCHANGED <<dstore, seeds, discovering, dpc, drun, todo, runStart,
                   fetched, probed, added, removed, visited, probeResult,
                   addCount, poolClosed, failedAdd>>

DiscoverNext ==
    \/ DiscoverInvoke /\ UNCHANGED notDiscover
    \/ DiscoverCheck /\ UNCHANGED notDiscover
    \/ DiscoverSet /\ UNCHANGED notDiscover
    \/ \E n \in Names : DiscoverDispatch(n) /\ UNCHANGED notDiscover
    \/ DiscoverWaitCall /\ UNCHANGED notDiscover
    \/ \E n \in Names : DiscoverServer(n) /\ UNCHANGED notDiscover
    \/ \E n \in Names : DiscoverServerContacts(n) /\ UNCHANGED notDiscover
    \/ \E n \in Names : DiscoverServerValidate(n) /\ UNCHANGED notDiscover
    \/ DiscoverWait /\ UNCHANGED notDiscover

(***************************************************************************)
(* Matrix.ParseRooms.  One goroutine calls ParseRooms; the getPublicRooms  *)
(* tasks run on the work pool.  A server answers a page request with a     *)
(* page of its directory, and the answer may fail to reach the crawler.    *)
(* The blocklist is fixed during the run and the store accepts every       *)
(* write.  AddRoomBatch is one step; the steps inside the batcher are the  *)
(* subject of the batch component.                                         *)
(***************************************************************************)
\* the entries a page may hold: room ids, 0 for the empty id
Entries == {0} \cup RoomIDs
\* the chunks of a page
Chunks == UNION {[1..k -> Entries] : k \in 0..MaxChunk}
\* a room the crawler keeps: room.ID == "" || room.IsBlocked(m.block)
Kept(r) == r # 0 /\ ~IsBlocked(r)
KeptOf(c) == {c[i] : i \in {j \in 1..Len(c) : Kept(c[j])}}

ParseInit ==
    /\ onlineServers \in SUBSET Servers
    /\ parsing = FALSE
    /\ parsePc = "idle"
    /\ ptodo = {}
    /\ pworkers = 0
    /\ pstate = [n \in Servers |-> "none"]
    /\ chunk = [n \in Servers |-> <<>>]
    /\ more = [n \in Servers |-> FALSE]
    /\ npages = [n \in Servers |-> 0]
    /\ lastResp = [n \in Servers |-> "none"]
    /\ rb = <<>>
    /\ listed = {}
    /\ due = {}
    /\ enqueued = {}
    /\ dropped = {}

ParseIdle == ParseInit /\ onlineServers = {}

\* a caller invokes Matrix.ParseRooms
ParseInvoke ==
    /\ parsePc = "idle"
    /\ parsePc' = "check"
    /\ UNCHANGED <<onlineServers, parsing, ptodo, pworkers, pstate, chunk,
                   more, npages, lastResp, rb, listed, due, enqueued, dropped, rooms>>

\* if m.parsing { return }
ParseCheck ==
    /\ parsePc = "check"
    /\ parsePc' = IF parsing THEN "returned" ELSE "set"
    /\ UNCHANGED <<onlineServers, parsing, ptodo, pworkers, pstate, chunk,
                   more, npages, lastResp, rb, listed, due, enqueued, dropped, rooms>>

\* m.parsing = true; servers := MapKeys(AllOnlineServers());
\* if total < workers { workers = total }
ParseSet ==
    /\ parsePc = "set"
    /\ parsing' = TRUE
    /\ ptodo' = onlineServers
    /\ pworkers' = IF Cardinality(onlineServers) < Workers
                   THEN Cardinality(onlineServers) ELSE Workers
    /\ parsePc' = "loop"
    /\ UNCHANGED <<onlineServers, pstate, chunk, more, npages, lastResp, rb,
                   listed, due, enqueued, dropped, rooms>>

\* the loop of ParseRooms, for one server: a blocked server is removed from
\* the store, any other gets a getPublicRooms task
ParseDispatch(n) ==
    /\ parsePc = "loop"
    /\ n \in ptodo
    /\ ptodo' = ptodo \ {n}
    /\ IF ByServer(n)
       THEN /\ onlineServers' = onlineServers \ {n}
            /\ UNCHANGED pstate
       ELSE /\ pstate' = [pstate EXCEPT ![n] = "queued"]
            /\ UNCHANGED onlineServers
    /\ UNCHANGED <<parsing, parsePc, pworkers, chunk, more, npages, lastResp,
                   rb, listed, due, enqueued, dropped, rooms>>

\* the loop is over: wp.Wait() is called
ParseWaitCall ==
    /\ parsePc = "loop"
    /\ ptodo = {}
    /\ parsePc' = "wait"
    /\ UNCHANGED <<onlineServers, parsing, ptodo, pworkers, pstate, chunk,
                   more, npages, lastResp, rb, listed, due, enqueued, dropped, rooms>>

ParseRunning == {n \in Servers : pstate[n] \in {"fetch", "chunk"}}

\* a worker of the pool takes the task of a server
ParseTaskStart(n) ==
    /\ pstate[n] = "queued"
    /\ Cardinality(ParseRunning) < pworkers
    /\ pstate' = [pstate EXCEPT ![n] = "fetch"]
    /\ UNCHANGED <<onlineServers, parsing, parsePc, ptodo, pworkers, chunk,
                   more, npages, lastResp, rb, listed, due, enqueued, dropped, rooms>>

\* getPublicRooms: resp := m.getPublicRoomsPage(name, limit, since);
\* if resp == nil || len(resp.Chunk) == 0 { return }.  The server holds the
\* page <<c, next>>; received says whether the crawler gets it
GetPublicRoomsPage(n) ==
    /\ pstate[n] = "fetch"
    /\ npages[n] < MaxPages
    /\ \E c \in Chunks, next \in BOOLEAN, received \in BOOLEAN :
        /\ (npages[n] + 1 = MaxPages) => ~next
        /\ npages' = [npages EXCEPT ![n] = @ + 1]
        /\ listed' = listed \cup KeptOf(c)
        /\ IF ~received
           THEN /\ lastResp' = [lastResp EXCEPT ![n] = "nil"]
                /\ pstate' = [pstate EXCEPT ![n] = "done"]
                /\ UNCHANGED <<chunk, more, due>>
           ELSE IF c = <<>>
           THEN /\ lastResp' = [lastResp EXCEPT ![n] =
                                    IF next THEN "empty_more" ELSE "empty_last"]
                /\ pstate' = [pstate EXCEPT ![n] = "done"]
                /\ UNCHANGED <<chunk, more, due>>
           ELSE /\ lastResp' = [lastResp EXCEPT ![n] =
                                    IF next THEN "rooms_more" ELSE "rooms_last"]
                /\ pstate' = [pstate EXCEPT ![n] = "chunk"]
                /\ chunk' = [chunk EXCEPT ![n] = c]
                /\ more' = [more EXCEPT ![n] = next]
                /\ due' = due \cup KeptOf(c)
    /\ UNCHANGED <<onlineServers, parsing, parsePc, ptodo, pworkers, rb,
                   enqueued, dropped, rooms>>

\* Data.AddRoomBatch -> Batch.Add: the room is appended; a full batch is
\* passed to the flush function, which puts every room in the rooms bucket
AddRoomBatch(r) ==
    IF Len(rb) + 1 >= BatchSize
    THEN /\ rooms' = rooms \cup Range(Append(rb, r))
         /\ rb' = <<>>
    ELSE /\ rb' = Append(rb, r)
         /\ UNCHANGED rooms

\* the mutated loop enqueues every room of the chunk
GetPublicRoomsRoomNoFilter(n) ==
    /\ pstate[n] = "chunk"
    /\ chunk[n] # <<>>
    /\ chunk' = [chunk EXCEPT ![n] = Tail(@)]
    /\ enqueued' = enqueued \cup {Head(chunk[n])}
    /\ AddRoomBatch(Head(chunk[n]))
    /\ UNCHANGED <<onlineServers, parsing, parsePc, ptodo, pworkers, pstate,
                   more, npages, lastResp, listed, due, dropped>>

\* getPublicRooms: the body of the loop over resp.Chunk, for one room
GetPublicRoomsRoom(n) ==
    /\ pstate[n] = "chunk"
    /\ chunk[n] # <<>>
    /\ chunk' = [chunk EXCEPT ![n] = Tail(@)]
    /\ IF Head(chunk[n]) = 0 \/ IsBlocked(Head(chunk[n]))
       THEN /\ dropped' = dropped \cup {Head(chunk[n])}
            /\ UNCHANGED <<enqueued, rb, rooms>>
       ELSE /\ enqueued' = enqueued \cup {Head(chunk[n])}
            /\ AddRoomBatch(Head(chunk[n]))
            /\ UNCHANGED dropped
    /\ UNCHANGED <<onlineServers, parsing, parsePc, ptodo, pworkers, pstate,
                   more, npages, lastResp, listed, due>>

\* the mutated loop returns after every page
GetPublicRoomsNextStops(n) ==
    /\ pstate[n] = "chunk"
    /\ chunk[n] = <<>>
    /\ pstate' = [pstate EXCEPT ![n] = "done"]
    /\ UNCHANGED <<onlineServers, parsing, parsePc, ptodo, pworkers, chunk,
                   more, npages, lastResp, rb, listed, due, enqueued, dropped, rooms>>

\* getPublicRooms: if resp.NextBatch == "" { return }; since = resp.NextBatch
GetPublicRoomsNext(n) ==
    /\ pstate[n] = "chunk"
    /\ chunk[n] = <<>>
    /\ pstate' = [pstate EXCEPT ![n] = IF more[n] THEN "fetch" ELSE "done"]
    /\ UNCHANGED <<onlineServers, parsing, parsePc, ptodo, pworkers, chunk,
                   more, npages, lastResp, rb, listed, due, enqueued, dropped, rooms>>

\* the mutated ParseRooms does not wait for the tasks
ParseWaitNoWait ==
    /\ parsePc = "wait"
    /\ parsePc' = "flush"
    /\ UNCHANGED <<onlineServers, parsing, ptodo, pworkers, pstate, chunk,
                   more, npages, lastResp, rb, listed, due, enqueued, dropped, rooms>>

\* wp.Wait() returns when every task has returned
ParseWait ==
    /\ parsePc = "wait"
    /\ \A n \in Servers : pstate[n] \in {"none", "done"}
    /\ parsePc' = "flush"
    /\ UNCHANGED <<onlineServers, parsing, ptodo, pworkers, pstate, chunk,
                   more, npages, lastResp, rb, listed, due, enqueued, dropped, rooms>>

\* m.data.FlushRoomBatch() -> Batch.Flush
FlushRoomBatch ==
    /\ parsePc = "flush"
    /\ rooms' = rooms \cup Range(rb)
    /\ rb' = <<>>
    /\ parsePc' = "release"
    /\ UNCHANGED <<onlineServers, parsing, ptodo, pworkers, pstate, chunk,
                   more, npages, lastResp, listed, due, enqueued, dropped>>

\* defer func() { m.parsing = false }(): ParseRooms returns
ParseRelease ==
    /\ parsePc = "release"
    /\ parsing' = FALSE
    /\ parsePc' = "returned"
    /\ UNCHANGED <<onlineServers, ptodo, pworkers, pstate, chunk, more,
                   npages, lastResp, rb, listed, due, enqueued, dropped, rooms>>

\* ParseRooms has returned
ParseReturned == parsePc = "returned"

ParseNext ==
    \/ ParseInvoke /\ UNCHANGED notParse
    \/ ParseCheck /\ UNCHANGED notParse
    \/ ParseSet /\ UNCHANGED notParse
    \/ \E n \in Servers : ParseDispatch(n) /\ UNCHANGED notParse
    \/ ParseWaitCall /\ UNCHANGED notParse
    \/ \E n \in Servers : ParseTaskStart(n) /\ UNCHANGED notParse
    \/ \E n \in Servers : GetPublicRoomsPage(n) /\ UNCHANGED notParse
    \/ \E n \in Servers : GetPublicRoomsRoom(n) /\ UNCHANGED notParse
    \/ \E n \in Servers : GetPublicRoomsNext(n) /\ UNCHANGED notParse
    \/ ParseWait /\ UNCHANGED notParse
    \/ FlushRoomBatch /\ UNCHANGED notParse
    \/ ParseRelease /\ UNCHANGED notParse

(***************************************************************************)
(* Endpoint resolver: Server.getURL and Server.dcrURL.  One goroutine      *)
(* calls getURL, one call after the other.  Every resolution step gets an  *)
(* answer of the network, drawn anew at every attempt.  An entry of the    *)
(* resolved URLs cache may expire between two calls.                       *)
(***************************************************************************)
RNames == {"a.example", "b.example"}
NoURL == <<>>

\* "https://" + host + ":" + port
HTTPS(host, port) == <<"https", host, port>>

\* answers to GET /.well-known/matrix/server: "error" (request failed, not
\* 200, not JSON) or the m.server value, split at ":" (the empty string
\* splits to one empty part)
WellKnownAnswers ==
    {"error", <<"">>, <<"wk.example">>, <<"wk.example", "443">>,
     <<"wk.example", "443", "1">>}

\* answers to net.LookupSRV: "error" or the records, a target being a
\* sequence of labels and dots
SRVAnswers(service) ==
    {"error", <<>>,
     <<[Target |-> <<service, ".">>, Port |-> 8449]>>,
     <<[Target |-> <<service>>, Port |-> 8450],
       [Target |-> <<"other", ".">>, Port |-> 8451]>>}

Failed == [ok |-> FALSE, value |-> NoURL]

ParseServerWellKnown(answer) ==
    IF answer = "error" \/ answer = <<"">> THEN Failed
    ELSE [ok |-> TRUE,
          value |-> HTTPS(answer[1],
                          IF Len(answer) = 2 THEN answer[2] ELSE "8448")]

\* strings.Trim(target, "."): the dots at both ends are cut
RECURSIVE Trim(_)
Trim(t) ==
    IF t = <<>> THEN t
    ELSE IF Head(t) = "." THEN Trim(Tail(t))
    ELSE IF t[Len(t)] = "." THEN Trim(SubSeq(t, 1, Len(t) - 1))
    ELSE t

ParseSRV(answer) ==
    IF answer = "error" \/ answer = <<>> THEN Failed
    ELSE [ok |-> TRUE,
          value |-> HTTPS(Trim(answer[1].Target), answer[1].Port)]

ResolveInit ==
    /\ surlsCache = [x \in RNames |-> NoURL]
    /\ gpc = "idle"
    /\ gname = "a.example"
    /\ gdiscover = FALSE
    /\ tried = <<>>
    /\ calls = <<>>
    /\ epoch = [x \in RNames |-> 0]
    /\ hooked = {}

ResolveIdle == ResolveInit /\ hasHook = FALSE

\* the call returns url
GetURLReturn(x, url, steps) ==
    /\ calls' = Append(calls, [name |-> x, url |-> url, tried |-> steps,
                               epoch |-> epoch[x]])
    /\ gpc' = "idle"

\* dcrURL: s.surlsCache.Add(serverName, url); go s.discoverFunc(...)
DcrURL(url, steps) ==
    /\ surlsCache' = [surlsCache EXCEPT ![gname] = url]
    /\ hooked' = IF hasHook /\ gdiscover THEN hooked \cup {gname} ELSE hooked
    /\ GetURLReturn(gname, url, steps)
    /\ tried' = <<>>
    /\ UNCHANGED <<hasHook, gname, gdiscover, epoch>>

\* a step failed: the next step follows
GetURLFallThrough(steps, next) ==
    /\ tried' = steps
    /\ gpc' = next
    /\ UNCHANGED <<surlsCache, hasHook, gname, gdiscover, calls, epoch,
                   hooked>>

\* cached, ok := s.surlsCache.Get(serverName); if ok { return cached }
GetURL(x, discover) ==
    /\ gpc = "idle"
    /\ Len(calls) < MaxCalls
    /\ IF surlsCache[x] # NoURL
       THEN /\ GetURLReturn(x, surlsCache[x], <<>>)
            /\ UNCHANGED <<gname, gdiscover>>
       ELSE /\ gpc' = "wellknown"
            /\ gname' = x
            /\ gdiscover' = discover
            /\ UNCHANGED calls
    /\ UNCHANGED <<surlsCache, hasHook, tried, epoch, hooked>>

Step(name, r) == [step |-> name, ok |-> r.ok, value |-> r.value]

GetURLWellKnown ==
    /\ gpc = "wellknown"
    /\ \E answer \in WellKnownAnswers :
        LET r == ParseServerWellKnown(answer)
            steps == Append(tried, Step("wellknown", r))
        IN IF r.ok THEN DcrURL(r.value, steps)
           ELSE GetURLFallThrough(steps, "matrix-fed")

\* the mutated step gives up the SRV lookups once the first has failed
GetURLSRVFedNoSecond ==
    /\ gpc = "matrix-fed"
    /\ \E answer \in SRVAnswers("matrix-fed") :
        LET r == ParseSRV(answer)
            steps == Append(tried, Step("matrix-fed", r))
        IN IF r.ok THEN DcrURL(r.value, steps)
           ELSE GetURLFallThrough(steps, "fallback")

GetURLSRVFed ==
    /\ gpc = "matrix-fed"
    /\ \E answer \in SRVAnswers("matrix-fed") :
        LET r == ParseSRV(answer)
            steps == Append(tried, Step("matrix-fed", r))
        IN IF r.ok THEN DcrURL(r.value, steps)
           ELSE GetURLFallThrough(steps, "matrix")

GetURLSRV ==
    /\ gpc = "matrix"
    /\ \E answer \in SRVAnswers("matrix") :
        LET r == ParseSRV(answer)
            steps == Append(tried, Step("matrix", r))
        IN IF r.ok THEN DcrURL(r.value, steps)
           ELSE GetURLFallThrough(steps, "fallback")

\* the mutated fallback returns the default URL without caching it
GetURLFallbackNoCache ==
    /\ gpc = "fallback"
    /\ GetURLReturn(gname, HTTPS(gname, "8448"), tried)
    /\ tried' = <<>>
    /\ UNCHANGED <<surlsCache, hasHook, gname, gdiscover, epoch, hooked>>

\* return s.dcrURL(..., "https://"+serverName+":8448", discover)
GetURLFallback ==
    /\ gpc = "fallback"
    /\ DcrURL(HTTPS(gname, "8448"), tried)

\* an entry of the cache reaches its time to live
CacheExpire(x) ==
    /\ gpc = "idle"
    /\ epoch[x] < MaxEpoch
    /\ surlsCache[x] # NoURL
    /\ surlsCache' = [surlsCache EXCEPT ![x] = NoURL]
    /\ epoch' = [epoch EXCEPT ![x] = @ + 1]
    /\ UNCHANGED <<hasHook, gpc, gname, gdiscover, tried, calls, hooked>>

ResolveNext ==
    \/ \E x \in RNames, d \in BOOLEAN : GetURL(x, d) /\ UNCHANGED notResolve
    \/ GetURLWellKnown /\ UNCHANGED notResolve
    \/ GetURLSRVFed /\ UNCHANGED notResolve
    \/ GetURLSRV /\ UNCHANGED notResolve
    \/ GetURLFallback /\ UNCHANGED notResolve
    \/ \E x \in RNames : CacheExpire(x) /\ UNCHANGED notResolve

(***************************************************************************)
(* Media fetch: Matrix.getMediaURLs and Matrix.downloadAvatar.  The caller *)
(* starts one goroutine per candidate URL and receives from datachan; the  *)
(* goroutines and the caller interleave freely.  What every URL answers is *)
(* fixed for the call.                                                     *)
(***************************************************************************)
matrixMediaFallbacks == <<"https://matrix-client.matrix.org">>
MediaNames == {"a.example"}
MediaIDs == {"m1", "m2"}
ServerURLs == {"", "https://a.example"}

\* serverURL+"/_matrix/media/v3/download/"+serverName+"/"+mediaID
DownloadURL(serverURL, serverName, mediaID) ==
    <<serverURL, "/_matrix/media/v3/download/", serverName, "/", mediaID>>

MediaCandidates ==
    {DownloadURL(b, n, i) :
        b \in (Range(matrixMediaFallbacks) \cup ServerURLs) \ {""},
        n \in MediaNames, i \in MediaIDs}
HTTPAnswers == {"200", "404", "error"}
NoMedia == <<>>

\* getMediaURLs: the fallbacks, then the URL of the server when GetServer
\* answers an error together with a non-empty URL
RECURSIVE FallbackURLs(_, _, _)
FallbackURLs(fallbacks, serverName, mediaID) ==
    IF fallbacks = <<>> THEN <<>>
    ELSE <<DownloadURL(Head(fallbacks), serverName, mediaID)>>
         \o FallbackURLs(Tail(fallbacks), serverName, mediaID)

GetMediaURLs(serverName, mediaID, serverURL, err) ==
    LET urls == FallbackURLs(matrixMediaFallbacks, serverName, mediaID)
    IN IF err /\ serverURL # ""
       THEN Append(urls, DownloadURL(serverURL, serverName, mediaID))
       ELSE urls

MediaInit ==
    /\ mcall \in [serverName : MediaNames, mediaID : MediaIDs,
                   serverURL : ServerURLs, err : BOOLEAN]
    /\ mediaURLs = GetMediaURLs(mcall.serverName, mcall.mediaID,
                                mcall.serverURL, mcall.err)
    /\ httpAnswer \in [MediaCandidates -> HTTPAnswers]
    /\ mpc = "launch"
    /\ launched = 0
    /\ mgo = [u \in MediaCandidates |-> "unborn"]
    /\ datachan = <<>>
    /\ closed = FALSE
    /\ mresult = NoMedia
    /\ stolen = {}
    /\ panicked = {}

MediaIdle ==
    /\ mcall = [serverName |-> "a.example", mediaID |-> "m1",
                serverURL |-> "", err |-> FALSE]
    /\ mediaURLs = <<>>
    /\ httpAnswer = [u \in MediaCandidates |-> "error"]
    /\ mpc = "launch"
    /\ launched = 0
    /\ mgo = [u \in MediaCandidates |-> "unborn"]
    /\ datachan = <<>>
    /\ closed = FALSE
    /\ mresult = NoMedia
    /\ stolen = {}
    /\ panicked = {}

\* for _, avatarURL := range urls { go func(...) {...}(datachan, avatarURL) }
MediaLaunch ==
    /\ mpc = "launch"
    /\ IF launched < Len(mediaURLs)
       THEN /\ launched' = launched + 1
            /\ mgo' = [mgo EXCEPT ![mediaURLs[launched + 1]] = "select"]
            /\ UNCHANGED mpc
       ELSE /\ mpc' = "receive"
            /\ UNCHANGED <<launched, mgo>>
    /\ UNCHANGED <<mcall, mediaURLs, httpAnswer, datachan, closed, mresult, stolen,
                   panicked>>

\* select { case <-datachan: return; default: ... }: the receive is ready
\* when the buffer holds a response or the channel is closed
MediaSelect(u) ==
    /\ mgo[u] = "select"
    /\ IF datachan # <<>>
       THEN /\ stolen' = stolen \cup {Head(datachan)}
            /\ datachan' = <<>>
            /\ mgo' = [mgo EXCEPT ![u] = "done"]
       ELSE /\ mgo' = [mgo EXCEPT ![u] = IF closed THEN "done" ELSE "get"]
            /\ UNCHANGED <<datachan, stolen>>
    /\ UNCHANGED <<mcall, mediaURLs, httpAnswer, mpc, launched, closed, mresult,
                   panicked>>

\* resp, err := http.Get(avatarURL); return unless 200
MediaGet(u) ==
    /\ mgo[u] = "get"
    /\ mgo' = [mgo EXCEPT ![u] = IF httpAnswer[u] = "200"
                                  THEN "send" ELSE "done"]
    /\ UNCHANGED <<mcall, mediaURLs, httpAnswer, mpc, launched, datachan, closed,
                   mresult, stolen, panicked>>

\* datachan <- map[string]io.ReadCloser{...}: blocks while the buffer is
\* full, panics when the channel is closed
MediaSend(u) ==
    /\ mgo[u] = "send"
    /\ closed \/ Len(datachan) < 1
    /\ IF closed
       THEN /\ panicked' = panicked \cup {u}
            /\ UNCHANGED datachan
       ELSE /\ datachan' = Append(datachan, u)
            /\ UNCHANGED panicked
    /\ mgo' = [mgo EXCEPT ![u] = "done"]
    /\ UNCHANGED <<mcall, mediaURLs, httpAnswer, mpc, launched, closed, mresult,
                   stolen>>

\* for contentType, avatar := range <-datachan
MediaReceive ==
    /\ mpc = "receive"
    /\ datachan # <<>>
    /\ mresult' = Head(datachan)
    /\ datachan' = <<>>
    /\ mpc' = "close"
    /\ UNCHANGED <<mcall, mediaURLs, httpAnswer, launched, mgo, closed, stolen,
                   panicked>>

\* close(datachan); return avatar, contentType
MediaClose ==
    /\ mpc = "close"
    /\ closed' = TRUE
    /\ mpc' = "returned"
    /\ UNCHANGED <<mcall, mediaURLs, httpAnswer, launched, mgo, datachan, mresult,
                   stolen, panicked>>

MediaNext ==
    \/ MediaLaunch /\ UNCHANGED notMedia
    \/ \E u \in MediaCandidates : MediaSelect(u) /\ UNCHANGED notMedia
    \/ \E u \in MediaCandidates : MediaGet(u) /\ UNCHANGED notMedia
    \/ \E u \in MediaCandidates : MediaSend(u) /\ UNCHANGED notMedia
    \/ MediaReceive /\ UNCHANGED notMedia
    \/ MediaClose /\ UNCHANGED notMedia

(***************************************************************************)
(* HTTP cache middleware: Cache.Middleware and Stats.SetFinishedAt.  The   *)
(* source holds two definitions of Cache.Middleware; a build has one of    *)
(* them.  Requests arrive at any moment, also between the two calls of     *)
(* SetFinishedAt.  The store accepts every write.                          *)
(***************************************************************************)
Processes == {"indexing", "parsing"}
HTTPMethods == {"GET", "POST"}
noncacheablePaths == {"/search", "/_matrix/federation/v1/publicRooms"}
Paths == noncacheablePaths \cup {"/stats"}
\* an absent header; a header value is a sequence of its parts
NoHeader == <<>>

\* t.Format(http.TimeFormat): the second of the instant, in the layout
\* "Mon, 02 Jan 2006 15:04:05 GMT"
Format(t) == <<"Mon, 02 Jan 2006 15:04:05 GMT", t \div 2>>

\* values of the If-Modified-Since header: absent, a time in the layout of
\* http.TimeFormat, a time in another layout
Headers ==
    {NoHeader} \cup {Format(t) : t \in 0..MaxTime}
        \cup {<<"Monday, 02-Jan-06 15:04:05 GMT", t \div 2>> : t \in 0..MaxTime}

NoRequest == [method |-> "none"]
Response(status, cc, tag, lm, handler, t) ==
    [status |-> status, cacheControl |-> cc, cdnTag |-> tag,
     lastModified |-> lm, handler |-> handler, t |-> t]

HTTPInit ==
    /\ revision \in {1, 2}
    /\ hnow = 1
    /\ hstored = [p \in Processes |-> 0]
    /\ hsnapshot = [p \in Processes |-> 0]
    /\ hpc = "idle"
    /\ hproc = "indexing"
    /\ lastIndexing = 0
    /\ hreq = NoRequest
    /\ hresp = NoRequest

HTTPIdle == HTTPInit /\ revision = 2

Tick ==
    /\ hnow < MaxTime
    /\ hnow' = hnow + 1
    /\ UNCHANGED <<revision, hstored, hsnapshot, hpc, hproc, lastIndexing,
                   hreq, hresp>>

\* s.data.SetFinishedAt(process, finishedAt)
SetFinishedAtStore(process) ==
    /\ hpc = "idle"
    /\ hstored' = [hstored EXCEPT ![process] = hnow]
    /\ hproc' = process
    /\ hpc' = "refresh"
    /\ UNCHANGED <<revision, hnow, hsnapshot, lastIndexing, hreq, hresp>>

\* the mutated SetFinishedAt leaves the snapshot as it is
SetFinishedAtNoRefresh ==
    /\ hpc = "refresh"
    /\ lastIndexing' = IF hproc = "indexing" THEN hstored["indexing"]
                       ELSE lastIndexing
    /\ hpc' = "idle"
    /\ UNCHANGED <<revision, hnow, hstored, hsnapshot, hproc, hreq, hresp>>

\* s.stats = s.data.GetIndexStats(), and SetFinishedAt returns
SetFinishedAtRefresh ==
    /\ hpc = "refresh"
    /\ hsnapshot' = hstored
    /\ lastIndexing' = IF hproc = "indexing" THEN hstored["indexing"]
                       ELSE lastIndexing
    /\ hpc' = "idle"
    /\ UNCHANGED <<revision, hnow, hstored, hproc, hreq, hresp>>

\* the handler runs with the headers set so far
Handler(cc, tag, lm) == Response(200, cc, tag, lm, TRUE, lastIndexing)
NotModified == Response(304, NoHeader, NoHeader, NoHeader, FALSE, lastIndexing)

\* Cache.Middleware of the first source: the non-cacheable paths get the
\* max-age header and no Last-Modified
Middleware1(method, path, ifModifiedSince) ==
    LET noncacheable == path \in noncacheablePaths
        lastModified == Format(hsnapshot["indexing"])
    IN IF method # "GET" THEN Handler(NoHeader, NoHeader, NoHeader)
       ELSE IF lastModified = ifModifiedSince /\ ~noncacheable
       THEN NotModified
       ELSE Handler(<<"max-age", "public">>, <<"mutable">>,
                    IF ~noncacheable THEN lastModified ELSE NoHeader)

\* Cache.Middleware of the second source: the non-cacheable paths get
\* Cache-Control: no-cache
Middleware2(method, path, ifModifiedSince) ==
    LET noncacheable == path \in noncacheablePaths
        lastModified == Format(hsnapshot["indexing"])
    IN IF method # "GET" THEN Handler(NoHeader, NoHeader, NoHeader)
       ELSE IF noncacheable THEN Handler(<<"no-cache">>, NoHeader, NoHeader)
       ELSE IF lastModified = ifModifiedSince THEN NotModified
       ELSE Handler(<<"max-age", "public">>, <<"mutable">>, lastModified)

Middleware(method, path, ifModifiedSince) ==
    /\ hreq' = [method |-> method, path |-> path, ims |-> ifModifiedSince]
    /\ hresp' = IF revision = 1
                THEN Middleware1(method, path, ifModifiedSince)
                ELSE Middleware2(method, path, ifModifiedSince)
    /\ UNCHANGED <<revision, hnow, hstored, hsnapshot, hpc, hproc,
                   lastIndexing>>

HTTPNext ==
    \/ Tick /\ UNCHANGED notHTTP
    \/ \E p \in Processes : SetFinishedAtStore(p) /\ UNCHANGED notHTTP
    \/ SetFinishedAtRefresh /\ UNCHANGED notHTTP
    \/ \E m \in HTTPMethods, p \in Paths, h \in Headers :
        Middleware(m, p, h) /\ UNCHANGED notHTTP

(***************************************************************************)
(* Search query: Search.matchFields, Search.newMatchQuery and              *)
(* Search.getSearchQuery.  A string is a sequence of symbols: words, the   *)
(* colon and the space.  A field name is a string too.                     *)
(***************************************************************************)
Symbols == {"foss", "language", "EN", ":", " "}
RECURSIVE StringsUpTo(_)
StringsUpTo(n) ==
    IF n = 0 THEN {<<>>}
    ELSE LET shorter == StringsUpTo(n - 1)
         IN shorter \cup {Append(q, c) : q \in shorter, c \in Symbols}
Queries == StringsUpTo(MaxQueryLen)

\* strings.Contains(str, c) for a one-symbol c
Contains(str, c) == \E i \in 1..Len(str) : str[i] = c

\* strings.Split(str, sep) for a one-symbol sep
RECURSIVE Split(_, _)
Split(str, sep) ==
    IF ~Contains(str, sep) THEN <<str>>
    ELSE LET i == CHOOSE k \in 1..Len(str) :
                    str[k] = sep /\ \A j \in 1..(k - 1) : str[j] # sep
         IN <<SubSeq(str, 1, i - 1)>>
                \o Split(SubSeq(str, i + 1, Len(str)), sep)

\* strings.TrimSpace(str)
RECURSIVE TrimSpace(_)
TrimSpace(str) ==
    IF str = <<>> THEN str
    ELSE IF Head(str) = " " THEN TrimSpace(Tail(str))
    ELSE IF str[Len(str)] = " " THEN TrimSpace(SubSeq(str, 1, Len(str) - 1))
    ELSE str

\* strings.ReplaceAll(str, old, ""), old not empty: every occurrence of
\* old in str, from the left and not overlapping, is cut out
RECURSIVE ReplaceAll(_, _)
ReplaceAll(str, old) ==
    IF Len(str) < Len(old) THEN str
    ELSE IF SubSeq(str, 1, Len(old)) = old
    THEN ReplaceAll(SubSeq(str, Len(old) + 1, Len(str)), old)
    ELSE <<Head(str)>> \o ReplaceAll(Tail(str), old)

\* the parts with a colon, in order (toRemove)
RECURSIVE ToRemove(_)
ToRemove(parts) ==
    IF parts = <<>> THEN <<>>
    ELSE IF Contains(Head(parts), ":")
    THEN <<Head(parts)>> \o ToRemove(Tail(parts))
    ELSE ToRemove(Tail(parts))

\* fields[strings.TrimSpace(pair[0])] = strings.TrimSpace(pair[1]) for
\* every part with a colon, a later part replacing an earlier one
RECURSIVE Fields(_, _)
Fields(pairs, fields) ==
    IF pairs = <<>> THEN fields
    ELSE LET pair == Split(TrimSpace(Head(pairs)), ":")
             key == TrimSpace(pair[1])
             value == TrimSpace(pair[2])
         IN Fields(Tail(pairs),
                   [k \in DOMAIN fields \cup {key} |->
                       IF k = key THEN value ELSE fields[k]])

RECURSIVE RemoveEach(_, _)
RemoveEach(query, removes) ==
    IF removes = <<>> THEN query
    ELSE RemoveEach(ReplaceAll(query, Head(removes)), Tail(removes))

\* a map without entries (nil or empty)
NoFields == [k \in {} |-> <<>>]

\* Search.matchFields
MatchFields(query) ==
    IF ~Contains(query, ":") THEN [query |-> query, fields |-> NoFields]
    ELSE LET removes == ToRemove(Split(query, " "))
         IN [query |-> TrimSpace(RemoveEach(query, removes)),
             fields |-> Fields(removes, NoFields)]

\* SearchFieldsBoost[field]: the value of the map, 0 for a missing key
SearchFieldsBoost(field) ==
    CASE field = <<"language">> -> 100
      [] field = <<"name">> -> 10
      [] field = <<"server">> -> 10
      [] field = <<"alias">> -> 5
      [] OTHER -> 0

\* Search.newMatchQuery: SetBoost is called for every field
NewMatchQuery(match, field, phrase) ==
    [match |-> match, field |-> field, phrase |-> phrase,
     boost |-> [set |-> TRUE, value |-> SearchFieldsBoost(field)]]

\* Search.getSearchQuery: the disjuncts are the four matches and, when
\* there are fields, one boolean query with a must match per field
GetSearchQuery(q0, fields) ==
    LET q == TrimSpace(q0)
        phrase == Contains(q, " ")
    IN [matches |-> <<NewMatchQuery(q, <<"name">>, phrase),
                      NewMatchQuery(q, <<"alias">>, phrase),
                      NewMatchQuery(q, <<"topic">>, phrase),
                      NewMatchQuery(q, <<"server">>, phrase)>>,
        bools |-> IF DOMAIN fields # {}
                  THEN <<{NewMatchQuery(fields[f], f, FALSE) :
                            f \in DOMAIN fields}>>
                  ELSE <<>>]

NoQuery == [matches |-> <<>>, bools |-> <<>>]

QueryInit ==
    /\ qinput \in Queries
    /\ qdone = FALSE
    /\ qresidual = <<>>
    /\ qfields = NoFields
    /\ qbuilt = NoQuery

QueryIdle == QueryInit /\ qinput = <<>>

\* Search.Search: matchFields, then getSearchQuery
SearchBuild ==
    /\ ~qdone
    /\ LET r == MatchFields(qinput)
       IN /\ qresidual' = r.query
          /\ qfields' = r.fields
          /\ qbuilt' = GetSearchQuery(r.query, r.fields)
    /\ qdone' = TRUE
    /\ UNCHANGED qinput

QueryNext == SearchBuild /\ UNCHANGED notQuery

(***************************************************************************)
(* Data.SaveServersRooms.  The steps of the function run inside one write  *)
(* transaction of the database: they change the transaction's view, and    *)
(* the committed view changes when the function passed to Update returns   *)
(* nil (commit); it stays when the function returns an error (rollback).   *)
(* The database rejects an empty bucket name and an empty key.             *)
(***************************************************************************)
ViewServers == {"", "s1"}
ViewIDs == {"", "r1", "r2"}
IDLists == UNION {[1..n -> ViewIDs] : n \in 0..MaxIDs}
ViewInputs == UNION {[d -> IDLists] : d \in SUBSET ViewServers}
NoView == [sv \in {} |-> <<>>]

\* rBucket.Get([]byte(roomID)): the body of a stored room, nil (stored as
\* an empty value) for an id that is not in the rooms bucket
RoomBody(id) == IF id = "r1" THEN "body of r1" ELSE ""

\* the servers_rooms bucket after an earlier run, when there is one
OldView == [sv \in {"s1"} |-> [id \in {"r2"} |-> RoomBody("r2")]]

ViewInit ==
    /\ \/ svExists = FALSE /\ svView = NoView
       \/ svExists = TRUE /\ svView \in {NoView, OldView}
    /\ txExists = svExists
    /\ txView = svView
    /\ vpc = "idle"
    /\ vdata = NoView
    /\ vtodo = {}
    /\ vcur = ""
    /\ vrest = <<>>
    /\ vret = "none"
    /\ vold = svView

ViewIdle == ViewInit /\ svExists = FALSE

\* return d.db.Update(func(tx *bbolt.Tx) error { ... the transaction begins
SaveServersRooms(d) ==
    /\ vpc = "idle"
    /\ vret = "none"
    /\ vdata' = d
    /\ vold' = svView
    /\ txExists' = svExists
    /\ txView' = svView
    /\ vpc' = "recreate"
    /\ UNCHANGED <<svExists, svView, vtodo, vcur, vrest, vret>>

\* the function returned an error: the transaction is rolled back
SaveRollback ==
    /\ vret' = "error"
    /\ vpc' = "idle"
    /\ UNCHANGED <<svExists, svView, txExists, txView, vdata, vtodo, vcur,
                   vrest, vold>>

\* the function returned nil: the transaction is committed
SaveCommit ==
    /\ svExists' = txExists
    /\ svView' = txView
    /\ vret' = "nil"
    /\ vpc' = "idle"
    /\ UNCHANGED <<txExists, txView, vdata, vtodo, vcur, vrest, vold>>

\* tx.DeleteBucket(serversRoomsBucket), an error when the bucket does not
\* exist; tx.CreateBucket(serversRoomsBucket)
SaveRecreate ==
    /\ vpc = "recreate"
    /\ IF ~txExists THEN SaveRollback
       ELSE /\ txView' = NoView
            /\ vtodo' = DOMAIN vdata
            /\ vpc' = "range"
            /\ UNCHANGED <<svExists, svView, txExists, vdata, vcur, vrest,
                           vret, vold>>

\* for server, roomIDs := range data: the servers in any order; a server
\* without room ids is skipped; srBucket.CreateBucket([]byte(server)), and
\* on its error "return nil"
SaveRange ==
    /\ vpc = "range"
    /\ IF vtodo = {} THEN SaveCommit
       ELSE \E server \in vtodo :
            IF Len(vdata[server]) = 0
            THEN /\ vtodo' = vtodo \ {server}
                 /\ UNCHANGED <<svExists, svView, txExists, txView, vpc,
                                vdata, vcur, vrest, vret, vold>>
            ELSE IF server = "" THEN SaveCommit
            ELSE /\ vtodo' = vtodo \ {server}
                 /\ txView' = [sv \in DOMAIN txView \cup {server} |->
                                 IF sv = server THEN NoView ELSE txView[sv]]
                 /\ vcur' = server
                 /\ vrest' = vdata[server]
                 /\ vpc' = "put"
                 /\ UNCHANGED <<svExists, svView, txExists, vdata, vret,
                                vold>>

\* for _, roomID := range roomIDs: subBucket.Put([]byte(roomID),
\* rBucket.Get([]byte(roomID))), and on its error "return nil"
SavePut ==
    /\ vpc = "put"
    /\ IF vrest = <<>>
       THEN /\ vpc' = "range"
            /\ UNCHANGED <<svExists, svView, txExists, txView, vdata, vtodo,
                           vcur, vrest, vret, vold>>
       ELSE IF Head(vrest) = "" THEN SaveCommit
       ELSE /\ txView' = [txView EXCEPT ![vcur] =
                    [id \in DOMAIN txView[vcur] \cup {Head(vrest)} |->
                        IF id = Head(vrest) THEN RoomBody(id)
                        ELSE txView[vcur][id]]]
            /\ vrest' = Tail(vrest)
            /\ UNCHANGED <<svExists, svView, txExists, vpc, vdata, vtodo,
                           vcur, vret, vold>>

ViewNext ==
    \/ \E d \in ViewInputs : SaveServersRooms(d) /\ UNCHANGED notView
    \/ SaveRecreate /\ UNCHANGED notView
    \/ SaveRange /\ UNCHANGED notView
    \/ SavePut /\ UNCHANGED notView

(***************************************************************************)
(* The mutex of the index service under concurrent runs of Ingest.  Two    *)
(* goroutines (the scheduler and the admin API) each run Ingest once:      *)
(* Matrix.EachRoom with its latch, Index.RoomsBatch for every room of the  *)
(* sweep, then Index.IndexBatch.  Every access to i.batch is a step.       *)
(***************************************************************************)
Ingesters == {"g1", "g2"}

\* the positions at which the next step of a goroutine reads or writes
\* i.batch
BatchAccess ==
    {"rb_size", "rb_index", "rb_submit", "rb_reset",
     "last_size", "last_submit", "last_reset"}

LockInit ==
    /\ imutex = "free"
    /\ ipc = [g \in Ingesters |-> "idle"]
    /\ ieach = FALSE
    /\ ileft = [g \in Ingesters |-> 0]
    /\ isize = 0
    /\ ithreshold \in 1..MaxThreshold
    /\ isubmitted = 0

LockIdle == LockInit /\ ithreshold = 1

LockFrame(g, pc) ==
    /\ ipc' = [ipc EXCEPT ![g] = pc]
    /\ UNCHANGED ithreshold

\* df.Ingest(): df.matrix.EachRoom(...) is called
LockIngest(g) ==
    /\ ipc[g] = "idle"
    /\ LockFrame(g, "each_check")
    /\ UNCHANGED <<imutex, ieach, ileft, isize, isubmitted>>

\* if m.eachrooming { return }: Ingest goes on to df.index.IndexBatch()
LockEachRoomCheck(g) ==
    /\ ipc[g] = "each_check"
    /\ LockFrame(g, IF ieach THEN "last_size" ELSE "each_set")
    /\ UNCHANGED <<imutex, ieach, ileft, isize, isubmitted>>

\* m.eachrooming = true; m.data.EachRoom(...)
LockEachRoomSet(g) ==
    /\ ipc[g] = "each_set"
    /\ ieach' = TRUE
    /\ ileft' = [ileft EXCEPT ![g] = NumRooms]
    /\ LockFrame(g, "each_iter")
    /\ UNCHANGED <<imutex, isize, isubmitted>>

\* the handler calls RoomsBatch: i.Lock(); after the last room the
\* deferred m.eachrooming = false runs and EachRoom returns
LockRoomsBatchLock(g) ==
    /\ ipc[g] = "each_iter"
    /\ IF ileft[g] = 0
       THEN /\ ieach' = FALSE
            /\ LockFrame(g, "last_size")
            /\ UNCHANGED <<imutex, ileft, isize, isubmitted>>
       ELSE /\ imutex = "free"
            /\ imutex' = g
            /\ LockFrame(g, "rb_size")
            /\ UNCHANGED <<ieach, ileft, isize, isubmitted>>

\* if i.batch.Size() >= i.cfg.Get().Batch.Rooms
LockRoomsBatchSize(g) ==
    /\ ipc[g] = "rb_size"
    /\ LockFrame(g, IF isize >= ithreshold THEN "rb_submit" ELSE "rb_index")
    /\ UNCHANGED <<imutex, ieach, ileft, isize, isubmitted>>

\* return i.batch.Index(roomID, data)
LockRoomsBatchIndex(g) ==
    /\ ipc[g] = "rb_index"
    /\ isize' = isize + 1
    /\ LockFrame(g, "rb_unlock")
    /\ UNCHANGED <<imutex, ieach, ileft, isubmitted>>

\* IndexBatch: size := i.batch.Size(), read where the caller stands
LockIndexBatchSize(g) ==
    /\ ipc[g] = "last_size"
    /\ LockFrame(g, "last_submit")
    /\ UNCHANGED <<imutex, ieach, ileft, isize, isubmitted>>

\* IndexBatch: err := i.index.IndexBatch(i.batch)
LockIndexBatchSubmit(g) ==
    /\ ipc[g] \in {"rb_submit", "last_submit"}
    /\ isubmitted' = isubmitted + isize
    /\ LockFrame(g, IF ipc[g] = "rb_submit" THEN "rb_reset" ELSE "last_reset")
    /\ UNCHANGED <<imutex, ieach, ileft, isize>>

\* IndexBatch: i.batch.Reset()
LockIndexBatchReset(g) ==
    /\ ipc[g] \in {"rb_reset", "last_reset"}
    /\ isize' = 0
    /\ LockFrame(g, IF ipc[g] = "rb_reset" THEN "rb_unlock" ELSE "done")
    /\ UNCHANGED <<imutex, ieach, ileft, isubmitted>>

\* the deferred i.Unlock() of RoomsBatch; the sweep goes to its next room
LockRoomsBatchUnlock(g) ==
    /\ ipc[g] = "rb_unlock"
    /\ imutex' = "free"
    /\ ileft' = [ileft EXCEPT ![g] = @ - 1]
    /\ LockFrame(g, "each_iter")
    /\ UNCHANGED <<ieach, isize, isubmitted>>

LockNext ==
    \/ \E g \in Ingesters : LockIngest(g) /\ UNCHANGED notLock
    \/ \E g \in Ingesters : LockEachRoomCheck(g) /\ UNCHANGED notLock
    \/ \E g \in Ingesters : LockEachRoomSet(g) /\ UNCHANGED notLock
    \/ \E g \in Ingesters : LockRoomsBatchLock(g) /\ UNCHANGED notLock
    \/ \E g \in Ingesters : LockRoomsBatchSize(g) /\ UNCHANGED notLock
    \/ \E g \in Ingesters : LockRoomsBatchIndex(g) /\ UNCHANGED notLock
    \/ \E g \in Ingesters : LockIndexBatchSize(g) /\ UNCHANGED notLock
    \/ \E g \in Ingesters : LockIndexBatchSubmit(g) /\ UNCHANGED notLock
    \/ \E g \in Ingesters : LockIndexBatchReset(g) /\ UNCHANGED notLock
    \/ \E g \in Ingesters : LockRoomsBatchUnlock(g) /\ UNCHANGED notLock

(***************************************************************************)
(* The index service seen by one caller: RoomsBatch and IndexBatch are     *)
(* called in any order, one call at a time, and every call is logged with  *)
(* the batch before and after it, the answer of the index repository and   *)
(* the error the call returned.                                            *)
(***************************************************************************)
CallInit == icalls = <<>>

Call(op, id, ok, err) ==
    [op |-> op, id |-> id, ok |-> ok, before |-> batch, after |-> batch',
     err |-> err]

CallFrame ==
    UNCHANGED <<rooms, blockIDs, blockServers, threshold, sibling,
                eachrooming, collecting, pop, ppc, remaining, toRemove,
                handed, oldDocs, parsed, indexed, snap, found>>

\* err := df.index.RoomsBatch(roomID, room.Entry())
CallRoomsBatch(r, ok) ==
    /\ Len(icalls) < MaxLog
    /\ RoomsBatch(r, ok)
    /\ icalls' = Append(icalls, Call("RoomsBatch", r, ok, RoomsBatchErr(ok)))
    /\ CallFrame

\* err := df.index.IndexBatch()
CallIndexBatch(ok) ==
    /\ Len(icalls) < MaxLog
    /\ IndexBatch(ok)
    /\ icalls' = Append(icalls, Call("IndexBatch", 0, ok, IndexBatchErr(ok)))
    /\ CallFrame

CallNext ==
    \/ \E r \in RoomIDs, ok \in BOOLEAN :
        CallRoomsBatch(r, ok) /\ UNCHANGED notCall
    \/ \E ok \in BOOLEAN : CallIndexBatch(ok) /\ UNCHANGED notCall

(***************************************************************************)
(* The flush function of the room batch: db.Update opens a transaction,    *)
(* the loop marshals and puts every room of the batch, the function        *)
(* returns nil and the transaction commits.  Marshal, Put and the commit   *)
(* may each fail.                                                          *)
(***************************************************************************)
FlushIDs == {"r1", "r2"}
FlushBatches == UNION {[1..n -> FlushIDs] : n \in 0..MaxIDs}
FlushOutcomes == {"ok", "marshal", "put"}

FlushInit ==
    /\ rfBucket \in [FlushIDs -> {"none", "old"}]
    /\ rfTx = rfBucket
    /\ rfpc = "idle"
    /\ rfItems = <<>>
    /\ rfRest = <<>>
    /\ rfOutcome = <<>>
    /\ rfLogged = {}
    /\ rfOld = rfBucket

FlushIdle == FlushInit /\ rfBucket = [id \in FlushIDs |-> "none"]

\* b.flushfunc(b.data): db.Update(func(tx *bbolt.Tx) error {
FlushBegin(items) ==
    /\ rfpc \in {"idle", "returned"}
    /\ rfpc' = "range"
    /\ rfTx' = rfBucket
    /\ rfItems' = items
    /\ rfRest' = items
    /\ rfOutcome' = <<>>
    /\ rfLogged' = {}
    /\ rfOld' = rfBucket
    /\ UNCHANGED rfBucket

\* for _, room := range rooms: json.Marshal, tx.Bucket(roomsBucket).Put;
\* an error is logged and the loop continues
FlushRoom(outcome) ==
    /\ rfpc = "range"
    /\ rfRest # <<>>
    /\ rfOutcome' = Append(rfOutcome, outcome)
    /\ IF outcome = "ok"
       THEN /\ rfTx' = [rfTx EXCEPT ![Head(rfRest)] = "new"]
            /\ UNCHANGED rfLogged
       ELSE /\ rfLogged' = rfLogged \cup {<<Head(rfRest), outcome>>}
            /\ UNCHANGED rfTx
    /\ rfRest' = Tail(rfRest)
    /\ UNCHANGED <<rfBucket, rfpc, rfItems, rfOld>>

\* return nil: db.Update commits; when the commit fails the transaction is
\* rolled back and the error of db.Update is dropped
FlushReturn(commits) ==
    /\ rfpc = "range"
    /\ rfRest = <<>>
    /\ rfBucket' = IF commits THEN rfTx ELSE rfBucket
    /\ rfpc' = "returned"
    /\ UNCHANGED <<rfTx, rfItems, rfRest, rfOutcome, rfLogged, rfOld>>

FlushNext ==
    \/ \E items \in FlushBatches : FlushBegin(items) /\ UNCHANGED notFlush
    \/ \E outcome \in FlushOutcomes : FlushRoom(outcome) /\ UNCHANGED notFlush
    \/ \E commits \in BOOLEAN : FlushReturn(commits) /\ UNCHANGED notFlush

LateIdle == CallInit /\ FlushIdle

ExtraIdle ==
    /\ ResolveIdle
    /\ MediaIdle
    /\ HTTPIdle
    /\ QueryIdle
    /\ ViewIdle
    /\ LockIdle
    /\ LateIdle

(***************************************************************************)
(* Specifications                                                          *)
(***************************************************************************)
InitBatch ==
    BatchInit /\ FacadeIdle /\ PipeIdle /\ BlocklistInit /\ DiscoverIdle /\ ParseIdle
    /\ ExtraIdle
SpecBatch == InitBatch /\ [][BatchNext]_vars

InitFacade ==
    FacadeInit /\ BatchInit /\ PipeIdle /\ BlocklistInit /\ DiscoverIdle /\ ParseIdle
    /\ ExtraIdle
SpecFacade == InitFacade /\ [][FacadeNext]_vars

Init ==
    PipeInit /\ BlocklistInit /\ BatchInit /\ FacadeIdle /\ DiscoverIdle /\ ParseIdle
    /\ ExtraIdle
Next == PipeNext
Spec == Init /\ [][Next]_vars

InitDiscover ==
    /\ DiscoverInit
    /\ blockIDs = {}
    /\ blockServers \in SUBSET Names
    /\ PipeIdle
    /\ BatchInit
    /\ FacadeIdle
    /\ ParseIdle
    /\ ExtraIdle
SpecDiscover == InitDiscover /\ [][DiscoverNext]_vars

\* discovery with a store that may reject the write of AddServer
DiscoverFaultyNext ==
    \/ DiscoverNext
    \/ \E n \in Names : DiscoverServerAddFails(n) /\ UNCHANGED notDiscover
    \/ \E n \in Names : PoolSkip(n) /\ UNCHANGED notDiscover
InitDiscoverFaulty == InitDiscover
SpecDiscoverFaulty == InitDiscoverFaulty /\ [][DiscoverFaultyNext]_vars

InitParse ==
    /\ ParseInit
    /\ blockIDs \in SUBSET BlockableIDs
    /\ blockServers \in SUBSET BlockableServers
    /\ PipeIdle
    /\ BatchInit
    /\ FacadeIdle
    /\ DiscoverIdle
    /\ ExtraIdle
SpecParse == InitParse /\ [][ParseNext]_vars

\* ParseRooms followed by Ingest, whose EachRoom sweeps the rooms that
\* ParseRooms has stored; every stored server is online
CrawlNext ==
    \/ ParseNext
    \/ ParseReturned /\ PipeInvoke("Ingest") /\ UNCHANGED notPipe
    \/ EachRoomCheck /\ UNCHANGED notPipe
    \/ EachRoomSet /\ UNCHANGED notPipe
    \/ EachRoomVisit /\ UNCHANGED notPipe
    \/ EachRoomRemove /\ UNCHANGED notPipe
    \/ EachRoomRelease /\ UNCHANGED notPipe
    \/ IngestIndexBatch /\ UNCHANGED notPipe
    \/ CollectCount /\ UNCHANGED notPipe
    \/ CollectReload /\ UNCHANGED notPipe
InitCrawl == InitParse
SpecCrawl == InitCrawl /\ [][CrawlNext]_vars

CoreIdle ==
    /\ BatchInit
    /\ FacadeIdle
    /\ PipeIdle
    /\ BlocklistInit
    /\ DiscoverIdle
    /\ ParseIdle

InitResolve ==
    /\ ResolveInit
    /\ hasHook \in BOOLEAN
    /\ CoreIdle
    /\ MediaIdle
    /\ HTTPIdle
    /\ QueryIdle
    /\ ViewIdle
    /\ LockIdle
    /\ LateIdle
SpecResolve == InitResolve /\ [][ResolveNext]_vars

InitMedia ==
    /\ MediaInit
    /\ CoreIdle
    /\ ResolveIdle
    /\ HTTPIdle
    /\ QueryIdle
    /\ ViewIdle
    /\ LockIdle
    /\ LateIdle
SpecMedia == InitMedia /\ [][MediaNext]_vars

\* the Go scheduler runs every goroutine that can take a step
InitMediaLive == InitMedia
SpecMediaLive == InitMediaLive /\ [][MediaNext]_vars /\ WF_vars(MediaNext)

InitHTTP ==
    /\ HTTPInit
    /\ CoreIdle
    /\ ResolveIdle
    /\ MediaIdle
    /\ QueryIdle
    /\ ViewIdle
    /\ LockIdle
    /\ LateIdle
SpecHTTP == InitHTTP /\ [][HTTPNext]_vars

\* the build with the second source of Cache.Middleware
InitHTTP2 == InitHTTP /\ revision = 2
SpecHTTP2 == InitHTTP2 /\ [][HTTPNext]_vars

InitQuery ==
    /\ QueryInit
    /\ CoreIdle
    /\ ResolveIdle
    /\ MediaIdle
    /\ HTTPIdle
    /\ ViewIdle
    /\ LockIdle
    /\ LateIdle
SpecQuery == InitQuery /\ [][QueryNext]_vars

InitView ==
    /\ ViewInit
    /\ CoreIdle
    /\ ResolveIdle
    /\ MediaIdle
    /\ HTTPIdle
    /\ QueryIdle
    /\ LockIdle
    /\ LateIdle
SpecView == InitView /\ [][ViewNext]_vars

InitLock ==
    /\ LockInit
    /\ CoreIdle
    /\ ResolveIdle
    /\ MediaIdle
    /\ HTTPIdle
    /\ QueryIdle
    /\ ViewIdle
    /\ LateIdle
SpecLock == InitLock /\ [][LockNext]_vars

InitCall ==
    PipeInit /\ BlocklistInit /\ BatchInit /\ FacadeIdle /\ DiscoverIdle /\ ParseIdle
    /\ ExtraIdle
SpecCall == InitCall /\ [][CallNext]_vars

InitFlush ==
    /\ FlushInit
    /\ CoreIdle
    /\ ResolveIdle
    /\ MediaIdle
    /\ HTTPIdle
    /\ QueryIdle
    /\ ViewIdle
    /\ LockIdle
    /\ CallInit
SpecFlush == InitFlush /\ [][FlushNext]_vars

(***************************************************************************)
(* Claims                                                                  *)
(***************************************************************************)
\* every item that has been added so far
AddedItems == {Item(p, k) : p \in Producers, k \in 1..MaxAdds} \cap
              {it \in Producers \X (1..MaxAdds) : it[2] <= nadded[it[1]]}

Delivered == Flatten(flushed)

\* C3: once the closing Flush, issued after all Adds have returned, has
\* completed, every added item has been passed to flushfunc in exactly one
\* invocation: none is lost, none is delivered twice
BatchExactlyOnce ==
    bpc[Closer] = "done" =>
        /\ Range(Delivered) = AddedItems
        /\ Len(Delivered) = Cardinality(AddedItems)
        /\ data = <<>>

\* the closing Flush has completed after both producers added concurrently
\* and an Add triggered a flush
BatchExactlyOnceWitness ==
    /\ bpc[Closer] = "done"
    /\ \A p \in Producers : nadded[p] >= 1
    /\ \E i \in 1..Len(viaAdd) : viaAdd[i]
    /\ Len(Delivered) >= 3


\* the callers that execute the body of the operation latch l guards
InBody(l) == {c \in Callers : InGuarded(c, "body") /\ LatchOf(Cur(c).op) = l}

\* C4: for each latch-guarded operation at most one invocation executes
\* the body at any time, under every interleaving
LatchOneActiveRun == \A l \in Latches : Cardinality(InBody(l)) <= 1

\* the calls DataFacade.Full issues, in order, when the sweep hands over k rooms
ExpectedFull(k) ==
    << <<"SetStartedAt", "discovery">>, <<"DiscoverServers", "discovery">>,
       <<"SetFinishedAt", "discovery">>, <<"Collect", "discovery">>,
       <<"SetStartedAt", "parsing">>, <<"ParseRooms", "parsing">>,
       <<"SetFinishedAt", "parsing">>, <<"Collect", "parsing">>,
       <<"SetStartedAt", "indexing">>, <<"EachRoom", "indexing">> >>
    \o [i \in 1..k |-> <<"RoomsBatch", "indexing">>]
    \o << <<"IndexBatch", "indexing">>, <<"SetFinishedAt", "indexing">>,
          <<"Collect", "indexing">>, <<"Purge", "indexing">> >>

IsPrefix(s, t) == Len(s) <= Len(t) /\ \A i \in 1..Len(s) : s[i] = t[i]

\* rooms the sweep of caller c hands over: none when the sweep was ignored
SweepRooms(c) == IF <<"EachRoom", "indexing">> \in ignored[c] THEN 0 ELSE nrooms

\* C6: within one invocation of Full the calls are issued in the order
\* discovery, parsing, indexing, each phase as SetStartedAt, the crawler
\* operation, SetFinishedAt, Collect; the indexing phase sweeps EachRoom
\* with one RoomsBatch per room, then IndexBatch; Purge is issued once, last
FullOrder ==
    \A c \in Callers : fmethod[c] = "Full" =>
        /\ \E k \in 0..nrooms : IsPrefix(trace[c], ExpectedFull(k))
        /\ Returned(c) => trace[c] = ExpectedFull(SweepRooms(c))

\* a Full invocation has returned after sweeping two rooms while another
\* request ran beside it
FullOrderWitness ==
    /\ fmethod["f1"] = "Full" /\ Returned("f1")
    /\ nrooms = 2 /\ SweepRooms("f1") = 2
    /\ fmethod["f2"] = "Ingest" /\ ~Returned("f2")

\* C7: whenever SetFinishedAt(P, t) has just been written, the stored
\* FinishedAt(P) is not before the stored StartedAt(P)
FinishedNotBeforeStarted ==
    lastStat[1] = "finished" =>
        finishedAt[lastStat[2]] >= startedAt[lastStat[2]]

\* C1: every room Search returns is, when Search returns it, blocked neither
\* by its id, nor by its alias, nor by its server.
SearchReturnsNoBlockedRoom == found.blocked = {}

\* C2: when EmptyIndex followed by Ingest has submitted its last batch and no
\* submission failed, the index holds as many documents as rooms were
\* handed to the handler by EachRoom.
ReindexLenEqualsHanded ==
    (pop = "Reindex" /\ ppc \in {"collect", "collect_reload", "idle"} /\ ~failed)
        => Cardinality(index) = Cardinality(handed)

ParsedAtLeastIndexed == snap.parsed >= snap.indexed

\* the names a run of DiscoverServers goes through
RunNames == {n \in Names : runStart[n].present} \cup seeds
\* the run of DiscoverServers has completed
RunCompleted == dpc = "idle" /\ drun >= 1

StoredWithURL(n) == runStart[n].present /\ runStart[n].url # ""
\* the run has fetched, probed and written nothing for the server, and its
\* record is the one the run found
Untouched(n) ==
    /\ n \notin fetched
    /\ n \notin probed
    /\ n \notin added
    /\ n \notin removed
    /\ dstore[n] = runStart[n]

DiscoverErrorDoesNotAbort ==
    RunCompleted =>
        \A n \in RunNames :
            (~ByServer(n) /\ ~runStart[n].present /\ n \notin failedAdd)
                => dstore[n].present

\* every getPublicRooms task has returned
ParseTasksOver == \A n \in Servers : pstate[n] \in {"none", "done"}

PendingKept == UNION {KeptOf(chunk[n]) : n \in Servers}

\* C14: no room with an empty id and no blocked room is passed to
\* AddRoomBatch, and every other room of a received page is passed to it
\* once the loop has gone through the page.
ParseEnqueuesOnlyKept ==
    /\ \A r \in enqueued : r # 0 /\ ~IsBlocked(r)
    /\ due \subseteq (enqueued \cup PendingKept)

ParseEnqueuesOnlyKeptWitness ==
    /\ 0 \in dropped
    /\ \E r \in dropped : r # 0 /\ IsBlocked(r)
    /\ enqueued # {}
    /\ PendingKept = {}

EachRoomPartitions ==
    [][/\ \A r \in handed' \ handed :
            ~IsBlocked(r) /\ r \in remaining /\ r \notin remaining'
       /\ \A r \in toRemove' \ toRemove : IsBlocked(r) /\ r \in remaining
       /\ ppc' = "each_iter" =>
            /\ handed' \cup toRemove' \cup remaining' = rooms'
            /\ handed' \cap toRemove' = {}
            /\ remaining' \cap (handed' \cup toRemove') = {}
       /\ ppc' = "each_release" =>
            /\ rooms' = handed'
            /\ rooms' \cap toRemove' = {}]_vars

EachRoomPartitionsWitness ==
    /\ ppc = "each_release"
    /\ toRemove # {}
    /\ handed # {}

\* C17: EachRoom writes to the store in one step only, the call of
\* RemoveRooms after the iteration has visited every room; while rooms
\* remain to be visited the store is not written and removals are only
\* collected.
EachRoomWritesAfterIteration ==
    [][/\ (ppc = "each_iter" /\ remaining # {}) =>
            (rooms' = rooms /\ toRemove \subseteq toRemove')
       /\ rooms' # rooms =>
            (ppc = "each_iter" /\ remaining = {} /\ ppc' = "each_release"
             /\ rooms' = rooms \ toRemove)]_vars

EachRoomWritesAfterIterationWitness ==
    /\ ppc = "each_release"
    /\ Cardinality(toRemove) >= 2
    /\ rooms = {}

\* the EachRoom sweep of an Ingest that followed ParseRooms is over
SweepDone ==
    /\ pop = "Ingest"
    /\ ppc \in {"each_release", "index_batch", "collect", "collect_reload", "idle"}

\* C18: after the EachRoom sweep every stored room has a server that is in
\* the servers store.
RoomServerIsStored ==
    SweepDone => \A r \in rooms : ServerOf(r) \in onlineServers

\* one goroutine has added 2 x BatchSize items, one after the other, and the
\* explicit Flush that follows has completed
SequentialDone ==
    /\ nadded["w1"] = 2 * BatchSize
    /\ nadded["w2"] = 0
    /\ bpc[Closer] = "done"

\* C19 (as stated): 2 x BatchSize items added one after the other and the
\* explicit Flush make two invocations of the flush function, the second
\* by the explicit Flush.
BatchTwoFlushesSecondExplicit ==
    SequentialDone => (Len(flushed) = 2 /\ ~viaAdd[2])

\* C19 (amended): 2 x BatchSize items added one after the other make two
\* invocations of the flush function, both by Add and each with BatchSize
\* items; the explicit Flush that follows makes a third invocation, with no
\* item.
BatchTwoFlushesByAdd ==
    SequentialDone =>
        /\ Len(flushed) = 3
        /\ viaAdd = <<TRUE, TRUE, FALSE>>
        /\ Len(flushed[1]) = BatchSize
        /\ Len(flushed[2]) = BatchSize
        /\ flushed[3] = <<>>

BatchTwoFlushesByAddWitness ==
    /\ SequentialDone
    /\ Len(Delivered) = 2 * BatchSize

\* the last item of a sequence with the room id, <<>> when there is none
RECURSIVE LastWithID(_, _)
LastWithID(items, id) ==
    IF items = <<>> THEN <<>>
    ELSE IF ItemID(items[Len(items)]) = id THEN items[Len(items)]
    ELSE LastWithID(SubSeq(items, 1, Len(items) - 1), id)

\* the items not yet passed to the flush function: between flushfunc(b.data)
\* and the reallocation of the slice, under the lock, there are none
Pending ==
    IF \E g \in Producers \cup {Closer} : bpc[g] = "flush_reset"
    THEN <<>> ELSE data

FirstCall(i) ==
    \A j \in 1..(i - 1) :
        calls[j].name = calls[i].name => calls[j].epoch # calls[i].epoch

\* C21: of two successive calls of getURL for one name, with no expiration
\* in between, the second returns the URL of the first and performs no
\* resolution step; the first performs the resolution when the name was not
\* cached, whatever step gave the URL, the default included.
ResolveSecondCallCached ==
    \A i \in 1..(Len(calls) - 1) :
        (calls[i].name = calls[i + 1].name
            /\ calls[i].epoch = calls[i + 1].epoch) =>
            /\ calls[i + 1].url = calls[i].url
            /\ calls[i + 1].tried = <<>>
            /\ (FirstCall(i) => calls[i].tried # <<>>)

ResolveSecondCallCachedWitness ==
    \E i \in 1..(Len(calls) - 1) :
        /\ calls[i].name = calls[i + 1].name
        /\ calls[i].epoch = calls[i + 1].epoch
        /\ Len(calls[i].tried) = 3
        /\ ~calls[i].tried[3].ok
        /\ calls[i + 1].url = HTTPS(calls[i].name, "8448")

ResolveOrder == <<"wellknown", "matrix-fed", "matrix">>

MediaQuiescent ==
    /\ mpc \in {"receive", "returned"}
    /\ datachan = <<>>
    /\ \A k \in 1..Len(mediaURLs) : mgo[mediaURLs[k]] = "done"

CacheNonCacheablePaths ==
    (hreq.method = "GET" /\ hreq.path \in noncacheablePaths) =>
        /\ hresp.cacheControl = <<"no-cache">>
        /\ hresp.status # 304
        /\ hresp.lastModified = NoHeader
        /\ hresp.handler

\* the key:value tokens of a search string: its space-separated parts with
\* a colon
KeyValueTokens(q) ==
    LET parts == Split(q, " ")
    IN {parts[i] : i \in {j \in 1..Len(parts) : Contains(parts[j], ":")}}

\* the key of a token: what precedes its first colon
KeyOf(token) == Split(token, ":")[1]

RECURSIVE JoinFreeText(_)
JoinFreeText(parts) ==
    IF parts = <<>> THEN <<>>
    ELSE LET head == IF Contains(Head(parts), ":") THEN <<>> ELSE Head(parts)
         IN IF Len(parts) = 1 THEN head
            ELSE head \o <<" ">> \o JoinFreeText(Tail(parts))

\* the residual free text of a search string: the string with every
\* key:value token taken out where it stands, trimmed
Residual(q) == TrimSpace(JoinFreeText(Split(q, " ")))

SearchDisjunctFields == <<<<"name">>, <<"alias">>, <<"topic">>, <<"server">>>>

\* C26: the query built for a search string has four matches, on name,
\* alias, topic and server, of the trimmed residual text, which are phrase
\* matches exactly when the residual has a space; it has a fifth disjunct,
\* a boolean query, exactly when the string has a key:value token, and the
\* boolean query has exactly one must match for every key.
SearchQueryShape ==
    qdone =>
        /\ Len(qbuilt.matches) = 4
        /\ \A i \in 1..4 :
            /\ qbuilt.matches[i].field = SearchDisjunctFields[i]
            /\ qbuilt.matches[i].match = Residual(qinput)
            /\ qbuilt.matches[i].phrase = Contains(Residual(qinput), " ")
        /\ Len(qbuilt.bools) = 1 <=> KeyValueTokens(qinput) # {}
        /\ Len(qbuilt.bools) <= 1
        /\ \A b \in 1..Len(qbuilt.bools) :
            LET keys == {KeyOf(t) : t \in KeyValueTokens(qinput)}
            IN /\ {m.field : m \in qbuilt.bools[b]} = keys
               /\ Cardinality(qbuilt.bools[b]) = Cardinality(keys)
               /\ \A m \in qbuilt.bools[b] : ~m.phrase

\* the boost of a match: the value set, and 1 when none was set
BoostValue(b) == IF b.set THEN b.value ELSE 1

ExpectedBoost(field) ==
    CASE field = <<"language">> -> 100
      [] field = <<"name">> -> 10
      [] field = <<"server">> -> 10
      [] field = <<"alias">> -> 5
      [] OTHER -> BoostValue([set |-> FALSE, value |-> 0])

BuiltMatches ==
    {qbuilt.matches[i] : i \in 1..Len(qbuilt.matches)}
        \cup UNION {qbuilt.bools[b] : b \in 1..Len(qbuilt.bools)}

\* C27: every match of the built query has the boost of its field:
\* language 100, name 10, server 10, alias 5, and the default of the
\* engine for any other field.
SearchBoosts ==
    \A m \in BuiltMatches : BoostValue(m.boost) = ExpectedBoost(m.field)

\* the view of an argument of SaveServersRooms: a sub-bucket for every
\* server with a non-empty list, holding every listed id with the body of
\* the room
FullView(d) ==
    [sv \in {x \in DOMAIN d : Len(d[x]) > 0} |->
        [id \in {d[sv][i] : i \in 1..Len(d[sv])} |-> RoomBody(id)]]

\* C28: when SaveServersRooms has returned, either it returned an error and
\* the committed servers_rooms view is the one before the call, or the
\* committed view is the full view of its argument.
SaveServersRoomsAllOrNothing ==
    vret # "none" =>
        \/ vret = "error" /\ svView = vold
        \/ svView = FullView(vdata)

\* C29: as long as no submission to the index has failed (every call of
\* RoomsBatch and IndexBatch so far returned nil), every entry handed to
\* RoomsBatch during the sweep is pending in the batch or is a document of
\* the index.
RoomsBatchKeepsEntry ==
    (ppc \in {"each_iter", "each_remove", "each_release"} /\ ~failed) =>
        handed \subseteq (batch \cup index)

\* C30: a goroutine whose next step reads or writes the batch of the index
\* service (Size, Index, the submission to the index, Reset) holds the
\* mutex of the index service.
IndexBatchUnderMutex ==
    \A g \in Ingesters : ipc[g] \in BatchAccess => imutex = g

\* the documents a logged call submitted to the index: a call that left
\* the batch empty submitted the batch it found
Submitted(j) == IF icalls[j].after = {} THEN icalls[j].before ELSE {}

\* the documents the calls between call k and call j added to the batch
AddedBetween(k, j) ==
    UNION {icalls[m].after \ icalls[m].before : m \in (k + 1)..(j - 1)}

\* C31: every call of IndexBatch leaves the batch empty, whether the
\* submission succeeded or not; a call whose submission failed returned an
\* error, and a later call submits a document of the failed batch only when
\* the document was added to the batch again after the failed call.
IndexBatchResets ==
    \A k \in 1..Len(icalls) :
        icalls[k].op = "IndexBatch" =>
            /\ icalls[k].after = {}
            /\ icalls[k].err = ~icalls[k].ok
            /\ ~icalls[k].ok =>
                \A j \in (k + 1)..Len(icalls) :
                    (Submitted(j) \cap icalls[k].before)
                        \subseteq AddedBetween(k, j)

IndexBatchResetsWitness ==
    \E k \in 1..Len(icalls) :
        /\ icalls[k].op = "IndexBatch"
        /\ ~icalls[k].ok
        /\ icalls[k].before # {}
        /\ \E j \in (k + 1)..Len(icalls) :
            /\ icalls[j].op = "IndexBatch"
            /\ icalls[j].before # {}

\* the callers inside a run of the operation latch l guards: the latch is
\* set and the deferred reset has not run yet
InRun(l) ==
    {c \in Callers : /\ ~Returned(c)
                     /\ Cur(c).op \in Guarded
                     /\ LatchOf(Cur(c).op) = l
                     /\ fstep[c] \in {"body", "release"}}

\* C32: every latch is true exactly when some caller is inside a run of the
\* operation the latch guards, between the write that sets the latch and
\* the deferred reset.
LatchTrueIffRunning ==
    \A l \in Latches : latch[l] <=> (InRun(l) # {})

\* the rooms of the batch whose Marshal or Put failed
FlushFailed == {i \in 1..Len(rfOutcome) : rfOutcome[i] # "ok"}

\* C33: when the flush function has returned and storing some room of the
\* batch failed, the committed rooms bucket is the one the flush function
\* found (no room of the batch is persisted) and every failure is logged.
FlushAbortsOnRoomError ==
    (rfpc = "returned" /\ FlushFailed # {}) =>
        /\ rfBucket = rfOld
        /\ \A i \in FlushFailed : <<rfItems[i], rfOutcome[i]>> \in rfLogged

\* C34: the candidate URLs hold the download URL of every fallback media
\* server and, when GetServer answered a non-empty URL without an error,
\* the download URL built from that URL.
MediaURLsFallbacksAndBase ==
    /\ \A k \in 1..Len(matrixMediaFallbacks) :
        DownloadURL(matrixMediaFallbacks[k], mcall.serverName, mcall.mediaID)
            \in Range(mediaURLs)
    /\ (~mcall.err /\ mcall.serverURL # "") =>
        DownloadURL(mcall.serverURL, mcall.serverName, mcall.mediaID)
            \in Range(mediaURLs)

\* no candidate URL of the call answers 200
MediaNo200 == \A k \in 1..Len(mediaURLs) : httpAnswer[mediaURLs[k]] # "200"

\* C35: when every candidate GET fails or answers a status other than 200,
\* downloadAvatar eventually returns, with no avatar.
MediaTerminates == MediaNo200 => <>(mpc = "returned" /\ mresult = NoMedia)

\* a goroutine waits at its send while the buffer is full and the channel
\* is open
MediaBlockedSenders ==
    {u \in MediaCandidates : mgo[u] = "send" /\ ~closed /\ datachan # <<>>}

PhaseOp(ph) == IF ph = "discovery" THEN "DiscoverServers" ELSE "ParseRooms"

\* caller c finds the latch set in this step: its invocation is coalesced
Coalesced(c) == ignored'[c] # ignored[c] /\ ignored[c] \subseteq ignored'[c]

\* caller c writes FinishedAt of a crawler phase in this step
WritesFinishedAt(c) ==
    /\ At(c, "SetFinishedAt")
    /\ Cur(c).ph \in {"discovery", "parsing"}
    /\ fip'[c] # fip[c]

\* C37: when an invocation of DataFacade.DiscoverServers or ParseRooms is
\* coalesced, the stored StartedAt of the phase is not the one the
\* invocation wrote; an invocation that writes FinishedAt of the phase was
\* not coalesced, and no run of the phase is in progress at that moment.
CoalescedLeavesTimestamps ==
    [][\A c \in Callers :
        /\ (Coalesced(c) /\ Cur(c).op \in {"DiscoverServers", "ParseRooms"})
            => startedAt[Cur(c).ph] # targ[c]
        /\ WritesFinishedAt(c) =>
            /\ <<PhaseOp(Cur(c).ph), Cur(c).ph>> \notin ignored[c]
            /\ InRun(LatchOf(PhaseOp(Cur(c).ph))) = {}]_vars

=============================================================================
